---- MODULE Spec2Model ----
(***************************************************************************)
(* A model of triagegeist: the parametric acuity score (package score),    *)
(* the parameter set and level classification (package triagegeist), the   *)
(* Engine, the validators of package validate and the confusion matrix of  *)
(* package metrics.                                                        *)
(*                                                                         *)
(* float64 values are modelled bit for bit: a finite value is a sign, a    *)
(* mantissa of 53 bits held in two halves and a binary exponent, next to   *)
(* the two infinities and NaN.  Every operation is rounded to the nearest  *)
(* float64, ties to even, with gradual underflow and overflow to an        *)
(* infinity, as IEEE 754 prescribes and Go implements (every comparison    *)
(* with NaN is false, Inf - Inf = Inf * 0 = Inf / Inf = NaN).  A decimal   *)
(* constant of the source is the float64 nearest to it.  A product and the *)
(* sum it is added to are rounded one after the other, as the amd64 build  *)
(* does; they are not fused into one rounding.                             *)
(***************************************************************************)
EXTENDS Integers, Sequences, FiniteSets

\* P: the Params value in use (Engine.P); op, args, ret: the call in progress,
\* its arguments and its result; last: what the caller keeps between calls
\* (nothing: <<>>), in SpecRepeat the ScoreAndLevel call whose result it kept,
\* in SpecOwn its own Params values, in SpecConc the SetThresholds calls that
\* the other goroutines have in progress.  HRNorm .. GCSNorm: the exported
\* package-level variables of package score, the reference ranges, each
\* <<mid, halfWidth>>.
VARIABLES P, op, args, ret, last,
          HRNorm, RRNorm, SBPNorm, DBPNorm, TempNorm, SpO2Norm, GCSNorm

\* The package-level variables of package score that the scoring reads.
pkg == <<HRNorm, RRNorm, SBPNorm, DBPNorm, TempNorm, SpO2Norm, GCSNorm>>

vars == <<P, op, args, ret, last, pkg>>

(***************************************************************************)
(* float64                                                                 *)
(***************************************************************************)
\* The base of a limb: products of two limbs fit an integer of the checker.
Base == 2^15

\* The base of a double limb: a 60-bit natural is the pair hi * Wide + lo.
Wide == 2^30

IAbs(i) == IF i < 0 THEN -i ELSE i

IMax(i, j) == IF i >= j THEN i ELSE j

IMin(i, j) == IF i <= j THEN i ELSE j

\* The number of bits of n, 0 < n < 2^31.
BitLen(n) ==
    IF n >= Base THEN 31 - (CHOOSE j \in 0..15 : n \div 2^(30 - j) = 1)
    ELSE CHOOSE k \in 1..15 : n \div 2^(k - 1) = 1

\* The number of bits of the pair (h, l), not both zero.
PairLen(h, l) == IF h > 0 THEN 30 + BitLen(h) ELSE BitLen(l)

\* The pair (h, l) shifted right by k bits, and whether a set bit was lost.
ShrHi(h, l, k) == IF k < 30 THEN h \div 2^k ELSE IF k = 30 THEN h \div Wide ELSE 0

ShrLo(h, l, k) ==
    IF k < 30 THEN (l \div 2^k) + (h % 2^k) * 2^(30 - k)
    ELSE IF k <= 60 THEN (h \div 2^(k - 30)) % Wide ELSE 0

ShrLost(h, l, k) ==
    IF k < 30 THEN l % 2^k # 0
    ELSE IF k <= 60 THEN l # 0 \/ h % 2^(k - 30) # 0 ELSE l # 0 \/ h # 0

\* The pair (h, l) shifted left by t bits, the result below 2^53.
ShlHi(h, l, t) == IF t < 30 THEN h * 2^t + l \div 2^(30 - t) ELSE l * 2^(t - 30)

ShlLo(h, l, t) == IF t < 30 THEN (l % 2^(30 - t)) * 2^t ELSE 0

\* A float64: class c, sign s, and for a number the magnitude
\* (hi * 2^30 + lo) * 2^x, with 2^52 <= hi * 2^30 + lo < 2^53 and
\* -1074 <= x <= 971 for a normal number, x = -1074 below that.
NaN == [c |-> "nan", s |-> 1, hi |-> 0, lo |-> 0, x |-> 0]

Inf(s) == [c |-> "inf", s |-> s, hi |-> 0, lo |-> 0, x |-> 972]

PosInf == Inf(1)

NegInf == Inf(-1)

Zero(s) == [c |-> "num", s |-> s, hi |-> 0, lo |-> 0, x |-> -1074]

IsNaN(a) == a.c = "nan"

IsInf(a) == a.c = "inf"

IsZero(a) == a.c = "num" /\ a.hi = 0 /\ a.lo = 0

finite(a) == a.c = "num"

\* The float64 of sign s and magnitude (h, l) * 2^x, already in range of the
\* mantissa: overflow of the exponent gives an infinity.
Make(s, h, l, x) ==
    IF h = 0 /\ l = 0 THEN Zero(s)
    ELSE IF x > 971 THEN Inf(s)
    ELSE [c |-> "num", s |-> s, hi |-> h, lo |-> l, x |-> x]

Renorm(s, h, l, x) ==
    Make(s, IF h = 2^23 THEN 2^22 ELSE h, l, IF h = 2^23 THEN x + 1 ELSE x)

RoundUp(s, h, l, up, x) ==
    Renorm(s, IF up /\ l + 1 = Wide THEN h + 1 ELSE h,
           IF up THEN (l + 1) % Wide ELSE l, x)

\* (h, l) holds the kept bits and, lowest, the round bit; rest says a set bit
\* lies below it. Round to nearest, ties to even.
RoundBits(s, h, l, rest, x) ==
    RoundUp(s, h \div 2, (l \div 2) + (h % 2) * 2^29,
            l % 2 = 1 /\ (rest \/ (l \div 2) % 2 = 1), x)

RoundShift(s, h, l, st, e, sh) ==
    RoundBits(s, ShrHi(h, l, sh - 1), ShrLo(h, l, sh - 1),
              st \/ ShrLost(h, l, sh - 1), e + sh)

ShiftUp(s, h, l, e, t) == Make(s, ShlHi(h, l, t), ShlLo(h, l, t), e - t)

RoundAt(s, h, l, st, e, len) ==
    IF IMax(len - 53, (-1074) - e) > 0
    THEN RoundShift(s, h, l, st, e, IMax(len - 53, (-1074) - e))
    ELSE ShiftUp(s, h, l, e, IMin(53 - len, e + 1074))

\* The float64 nearest to s * ((h, l) + f) * 2^e, where 0 <= f < 1 and
\* st says f # 0.
Round(s, h, l, st, e) ==
    IF h = 0 /\ l = 0 THEN Zero(s) ELSE RoundAt(s, h, l, st, e, PairLen(h, l))

\* float64(i) of an integer.
F(i) ==
    IF i = 0 THEN Zero(1)
    ELSE Round(IF i < 0 THEN -1 ELSE 1, IAbs(i) \div Wide, IAbs(i) % Wide, FALSE, 0)

MagLt(a, b) ==
    a.x < b.x \/ (a.x = b.x /\ (a.hi < b.hi \/ (a.hi = b.hi /\ a.lo < b.lo)))

FEq(a, b) == ~IsNaN(a) /\ ~IsNaN(b) /\ (a = b \/ (IsZero(a) /\ IsZero(b)))

FNe(a, b) == ~FEq(a, b)

FLt(a, b) ==
    /\ ~IsNaN(a)
    /\ ~IsNaN(b)
    /\ ~(IsZero(a) /\ IsZero(b))
    /\ IF a.s # b.s THEN a.s < b.s
       ELSE IF a.s = 1 THEN MagLt(a, b) ELSE MagLt(b, a)

FLe(a, b) == FLt(a, b) \/ FEq(a, b)

FGt(a, b) == FLt(b, a)

FGe(a, b) == FLe(b, a)

FNeg(a) == IF IsNaN(a) THEN a ELSE [a EXCEPT !.s = -a.s]

FAbs(a) == IF IsNaN(a) THEN a ELSE [a EXCEPT !.s = 1]

AddFinal(s, h, l, lost, e) == Round(s, h + l \div Wide, l % Wide, lost, e)

AddSigned(sa, sb, ah, al, bh, bl, lost, e) ==
    AddFinal(IF sa # sb /\ ah = bh /\ al = bl /\ ~lost THEN 1 ELSE sa,
             IF sa = sb THEN ah + bh ELSE ah - bh,
             IF sa = sb THEN al + bl ELSE al - bl - (IF lost THEN 1 ELSE 0),
             lost, e)

AddShift(sa, sb, ah, al, bh, bl, d, e) ==
    AddSigned(sa, sb, ah, al, ShrHi(bh, bl, d), ShrLo(bh, bl, d), ShrLost(bh, bl, d), e)

\* a + b for numbers other than zero, a of the larger magnitude: three guard
\* bits and a sticky bit below the mantissa of a.
AddOrd(a, b) ==
    AddShift(a.s, b.s, a.hi * 8 + a.lo \div 2^27, (a.lo % 2^27) * 8,
             b.hi * 8 + b.lo \div 2^27, (b.lo % 2^27) * 8, a.x - b.x, a.x - 3)

\* a + b
FAdd(a, b) ==
    IF IsNaN(a) \/ IsNaN(b) THEN NaN
    ELSE IF IsInf(a) THEN (IF IsInf(b) /\ a.s # b.s THEN NaN ELSE a)
    ELSE IF IsInf(b) THEN b
    ELSE IF IsZero(a)
         THEN (IF IsZero(b) THEN Zero(IF a.s = -1 /\ b.s = -1 THEN -1 ELSE 1) ELSE b)
    ELSE IF IsZero(b) THEN a
    ELSE AddOrd(IF MagLt(a, b) THEN b ELSE a, IF MagLt(a, b) THEN a ELSE b)

\* a - b
FSub(a, b) == FAdd(a, FNeg(b))

\* The shift that brings the mantissa of a number other than zero to 53 bits.
Up(a) == IF a.hi >= 2^22 THEN 0 ELSE 53 - PairLen(a.hi, a.lo)

NormHi(a) == ShlHi(a.hi, a.lo, Up(a))

NormLo(a) == ShlLo(a.hi, a.lo, Up(a))

NormX(a) == a.x - Up(a)

MulTop4(s, el, d5, t6, v7, st, e) ==
    Round(s, d5 + (t6 % Base) * Base + (v7 + t6 \div Base) * Wide, el, st, e)

MulTop3(s, el, t5, v6, v7, st, e) ==
    MulTop4(s, el, t5 % Base, v6 + t5 \div Base, v7, st, e)

MulTop2(s, d3, t4, v5, v6, v7, st, e) ==
    MulTop3(s, d3 + (t4 % Base) * Base, v5 + t4 \div Base, v6, v7, st, e)

MulTop(s, t3, v4, v5, v6, v7, st, e) ==
    MulTop2(s, t3 % Base, v4 + t3 \div Base, v5, v6, v7, st, e)

\* The column sums v0..v7 of the product carried into eight limbs; the three
\* lowest are kept as the sticky bit only.
MulCols(s, v0, v1, v2, v3, v4, v5, v6, v7, e) ==
    MulTop(s, v3 + (v2 + v1 \div Base) \div Base, v4, v5, v6, v7,
           v0 # 0 \/ v1 % Base # 0 \/ (v2 + v1 \div Base) % Base # 0, e)

MulLimbs(s, a0, a1, a2, a3, b0, b1, b2, b3, e) ==
    MulCols(s,
        (a0 * b0) % Base,
        ((a0 * b1) % Base) + ((a1 * b0) % Base) + ((a0 * b0) \div Base),
        ((a0 * b2) % Base) + ((a1 * b1) % Base) + ((a2 * b0) % Base)
            + ((a0 * b1) \div Base) + ((a1 * b0) \div Base),
        ((a0 * b3) % Base) + ((a1 * b2) % Base) + ((a2 * b1) % Base) + ((a3 * b0) % Base)
            + ((a0 * b2) \div Base) + ((a1 * b1) \div Base) + ((a2 * b0) \div Base),
        ((a1 * b3) % Base) + ((a2 * b2) % Base) + ((a3 * b1) % Base)
            + ((a0 * b3) \div Base) + ((a1 * b2) \div Base) + ((a2 * b1) \div Base)
            + ((a3 * b0) \div Base),
        ((a2 * b3) % Base) + ((a3 * b2) % Base)
            + ((a1 * b3) \div Base) + ((a2 * b2) \div Base) + ((a3 * b1) \div Base),
        ((a3 * b3) % Base) + ((a2 * b3) \div Base) + ((a3 * b2) \div Base),
        (a3 * b3) \div Base,
        e)

MulNorm(s, ah, al, xa, bh, bl, xb) ==
    MulLimbs(s, al % Base, al \div Base, ah % Base, ah \div Base,
             bl % Base, bl \div Base, bh % Base, bh \div Base, xa + xb + 45)

\* a * b
FMul(a, b) ==
    IF IsNaN(a) \/ IsNaN(b) THEN NaN
    ELSE IF IsInf(a) \/ IsInf(b)
         THEN (IF IsZero(a) \/ IsZero(b) THEN NaN ELSE Inf(a.s * b.s))
    ELSE IF IsZero(a) \/ IsZero(b) THEN Zero(a.s * b.s)
    ELSE MulNorm(a.s * b.s, NormHi(a), NormLo(a), NormX(a), NormHi(b), NormLo(b), NormX(b))

\* The low double limb and the carry of q * w, q a limb and w a double limb.
MulLo(q, w) == ((q * (w % Base)) + ((q * (w \div Base)) % Base) * Base) % Wide

MulHi(q, w) ==
    ((q * (w \div Base)) \div Base)
      + ((q * (w % Base)) + ((q * (w \div Base)) % Base) * Base) \div Wide

Gt3(t2, t1, t0, r2, r1, r0) ==
    t2 > r2 \/ (t2 = r2 /\ (t1 > r1 \/ (t1 = r1 /\ t0 > r0)))

\* t = <<q, t2, t1, t0>> with (t2, t1, t0) = q * d: one digit less while the
\* product exceeds the remainder (r2, r1, r0).
Fix(t, r2, r1, r0, dh, dl) ==
    IF Gt3(t[2], t[3], t[4], r2, r1, r0)
    THEN <<t[1] - 1,
           t[2] + (t[3] - dh + (t[4] - dl) \div Wide) \div Wide,
           (t[3] - dh + (t[4] - dl) \div Wide) % Wide,
           (t[4] - dl) % Wide>>
    ELSE t

StepEnd(qh, ql, r1, r0, t) ==
    <<qh * Base + ql \div Base, (ql % Base) * Base + t[1],
      (r1 - t[3] + (r0 - t[4]) \div Wide) % Wide, (r0 - t[4]) % Wide>>

StepMul(qh, ql, r2, r1, r0, dh, dl, q) ==
    StepEnd(qh, ql, r1, r0,
        Fix(Fix(<<q, MulHi(q, dh) + (MulLo(q, dh) + MulHi(q, dl)) \div Wide,
                  (MulLo(q, dh) + MulHi(q, dl)) % Wide, MulLo(q, dl)>>,
                r2, r1, r0, dh, dl), r2, r1, r0, dh, dl))

StepEst(qh, ql, r2, r1, r0, dh, dl) ==
    StepMul(qh, ql, r2, r1, r0, dh, dl,
            IMin(Base - 1, (r2 * Base + r1 \div Base) \div (dh \div Base)))

\* One limb of long division: st = <<qh, ql, rh, rl>> is the quotient so far
\* and the remainder, (dh, dl) the divisor of 60 bits.
Step(st, dh, dl) ==
    StepEst(st[1], st[2], st[3] \div Base, (st[4] \div Base) + (st[3] % Base) * Base,
            (st[4] % Base) * Base, dh, dl)

DivEnd(s, e, st) == Round(s, st[1], st[2], st[3] # 0 \/ st[4] # 0, e)

DivFirst(s, nh, nl, dh, dl, e, ge) ==
    DivEnd(s, e,
        Step(Step(Step(Step(
            <<0, IF ge THEN 1 ELSE 0,
              IF ge THEN nh - dh + (nl - dl) \div Wide ELSE nh,
              IF ge THEN (nl - dl) % Wide ELSE nl>>,
            dh, dl), dh, dl), dh, dl), dh, dl))

DivWide(s, nh, nl, dh, dl, e) ==
    DivFirst(s, nh, nl, dh, dl, e, nh > dh \/ (nh = dh /\ nl >= dl))

DivNorm(s, ah, al, xa, bh, bl, xb) ==
    DivWide(s, ah * 128 + al \div 2^23, (al % 2^23) * 128,
            bh * 128 + bl \div 2^23, (bl % 2^23) * 128, xa - xb - 60)

\* a / b
FDiv(a, b) ==
    IF IsNaN(a) \/ IsNaN(b) THEN NaN
    ELSE IF IsInf(a) THEN (IF IsInf(b) THEN NaN ELSE Inf(a.s * b.s))
    ELSE IF IsInf(b) THEN Zero(a.s * b.s)
    ELSE IF IsZero(b) THEN (IF IsZero(a) THEN NaN ELSE Inf(a.s * b.s))
    ELSE IF IsZero(a) THEN Zero(a.s * b.s)
    ELSE DivNorm(a.s * b.s, NormHi(a), NormLo(a), NormX(a), NormHi(b), NormLo(b), NormX(b))

\* The float64 nearest to the decimal constant n / d of the source.
Rat(n, d) == FDiv(F(n), F(d))

\* math.MaxFloat64, (2^53 - 1) * 2^971.
MaxFloat64 == [c |-> "num", s |-> 1, hi |-> 2^23 - 1, lo |-> Wide - 1, x |-> 971]

(***************************************************************************)
(* package score                                                           *)
(***************************************************************************)
\* score.VitalWeights, the default weight vector (HR, RR, SBP, DBP, Temp, SpO2, GCS).
VitalWeights ==
    <<Rat(18, 100), Rat(22, 100), Rat(16, 100), Rat(10, 100),
      Rat(8, 100), Rat(16, 100), Rat(10, 100)>>

\* The initial values of the package-level reference ranges.  No function of
\* the library assigns them.
InitPkg ==
    /\ HRNorm = <<F(80), F(40)>>
    /\ RRNorm = <<F(16), F(10)>>
    /\ SBPNorm = <<F(120), F(40)>>
    /\ DBPNorm = <<F(80), F(30)>>
    /\ TempNorm = <<F(37), F(2)>>
    /\ SpO2Norm = <<F(98), F(8)>>
    /\ GCSNorm = <<F(15), F(6)>>

\* The cap "if d > 1 { return 1 }; return d" that ends deviation,
\* VitalComponent and norm.Deviation.
CapAtOne(d) == IF FGt(d, F(1)) THEN F(1) ELSE d

\* score.deviation
deviation(v, mid, hw) ==
    IF FLe(hw, F(0)) THEN F(0)
    ELSE IF FLe(v, F(0)) /\ FGt(mid, F(0)) THEN F(0)
    ELSE CapAtOne(FDiv(FAbs(FSub(v, mid)), hw))

\* A faulty tail of VitalComponent, returning the weighted sum without
\* dividing by the weights of the present vitals: ExampleIsLevel2 fails with it.
VitalRatioUnnormalised(sum, wSum) ==
    IF FLe(wSum, F(0)) THEN F(0)
    ELSE IF FGt(sum, F(1)) THEN F(1) ELSE sum

\* The tail of VitalComponent and VitalComponentWithNorms, from "if wSum <= 0".
VitalRatio(sum, wSum) ==
    IF FLe(wSum, F(0)) THEN F(0) ELSE CapAtOne(FDiv(sum, wSum))

\* An if statement whose body is "acc += t": acc after it, p its condition.
AddIf(p, acc, t) == IF p THEN FAdd(acc, t) ELSE acc

\* weights[i] * d, with d the deviation of x from the reference range n.
Term(w, x, n) == FMul(w, deviation(x, n[1], n[2]))

\* sum at the end of the seven if statements of VitalComponent.
VitalSum(v, weights) ==
    AddIf(v.GCS > 0,
      AddIf(v.SpO2 > 0,
        AddIf(FGt(v.Temp, F(0)),
          AddIf(v.DBP > 0,
            AddIf(v.SBP > 0,
              AddIf(v.RR > 0,
                AddIf(v.HR > 0, F(0), Term(weights[1], F(v.HR), HRNorm)),
                Term(weights[2], F(v.RR), RRNorm)),
              Term(weights[3], F(v.SBP), SBPNorm)),
            Term(weights[4], F(v.DBP), DBPNorm)),
          Term(weights[5], v.Temp, TempNorm)),
        Term(weights[6], F(v.SpO2), SpO2Norm)),
      Term(weights[7], F(v.GCS), GCSNorm))

\* wSum at the end of the seven if statements of VitalComponent.
VitalWeightSum(v, weights) ==
    AddIf(v.GCS > 0,
      AddIf(v.SpO2 > 0,
        AddIf(FGt(v.Temp, F(0)),
          AddIf(v.DBP > 0,
            AddIf(v.SBP > 0,
              AddIf(v.RR > 0,
                AddIf(v.HR > 0, F(0), weights[1]),
                weights[2]),
              weights[3]),
            weights[4]),
          weights[5]),
        weights[6]),
      weights[7])

\* score.VitalComponent
VitalComponent(v, weights) ==
    VitalRatio(VitalSum(v, weights), VitalWeightSum(v, weights))

\* A faulty ResourceComponent, without the cap of the ratio at 1:
\* ResourceComponentSaturates fails with it.
ResourceComponentUncapped(resourceCount, maxResources, weight) ==
    IF maxResources <= 0 \/ FLe(weight, F(0)) THEN F(0)
    ELSE IF resourceCount <= 0 THEN F(0)
    ELSE FMul(weight, FDiv(F(resourceCount), F(maxResources)))

\* score.ResourceComponent
ResourceComponent(resourceCount, maxResources, weight) ==
    IF maxResources <= 0 \/ FLe(weight, F(0)) THEN F(0)
    ELSE IF resourceCount <= 0 THEN F(0)
    ELSE FMul(weight, CapAtOne(FDiv(F(resourceCount), F(maxResources))))

\* score.AcuityRaw
AcuityRaw(vitalComponent, resourceComponent) ==
    FAdd(vitalComponent, resourceComponent)

\* The clamp "if s > 1 { return 1 }; if s < 0 { return 0 }; return s".
ClampUnit(s) == IF FGt(s, F(1)) THEN F(1) ELSE IF FLt(s, F(0)) THEN F(0) ELSE s

\* score.Normalize
Normalize(raw, divisor) ==
    IF FLe(divisor, F(0)) THEN F(0) ELSE ClampUnit(FDiv(raw, divisor))

\* score.WeightSum, and the loop "for _, w := range vitalWeights { wSum += w }".
WeightSum(w) ==
    FAdd(FAdd(FAdd(FAdd(FAdd(FAdd(FAdd(F(0), w[1]), w[2]), w[3]), w[4]), w[5]), w[6]), w[7])

\* A faulty Acuity, dividing by the weights of the present vitals only:
\* AcuityOverDivisor fails with it.
AcuityPresentDivisor(v, resourceCount, maxResources, vitalWeights, resourceWeight) ==
    Normalize(AcuityRaw(VitalComponent(v, vitalWeights),
                        ResourceComponent(resourceCount, maxResources, resourceWeight)),
              FAdd(VitalWeightSum(v, vitalWeights), resourceWeight))

\* A faulty Acuity, dividing by the weight sum without the resource weight:
\* SingleVitalBelowT1 fails with it.
AcuityWithoutResourceWeight(v, resourceCount, maxResources, vitalWeights, resourceWeight) ==
    Normalize(AcuityRaw(VitalComponent(v, vitalWeights),
                        ResourceComponent(resourceCount, maxResources, resourceWeight)),
              WeightSum(vitalWeights))

\* score.Acuity
Acuity(v, resourceCount, maxResources, vitalWeights, resourceWeight) ==
    Normalize(AcuityRaw(VitalComponent(v, vitalWeights),
                        ResourceComponent(resourceCount, maxResources, resourceWeight)),
              FAdd(WeightSum(vitalWeights), resourceWeight))

\* sum at the end of the seven if statements of VitalComponentWithNorms.
VitalSumWithNorms(v, weights, norms) ==
    AddIf(v.GCS > 0 /\ FGt(norms[7][2], F(0)),
      AddIf(v.SpO2 > 0 /\ FGt(norms[6][2], F(0)),
        AddIf(FNe(v.Temp, F(0)) /\ FGt(norms[5][2], F(0)),
          AddIf(v.DBP > 0 /\ FGt(norms[4][2], F(0)),
            AddIf(v.SBP > 0 /\ FGt(norms[3][2], F(0)),
              AddIf(v.RR > 0 /\ FGt(norms[2][2], F(0)),
                AddIf(v.HR > 0 /\ FGt(norms[1][2], F(0)), F(0),
                      Term(weights[1], F(v.HR), norms[1])),
                Term(weights[2], F(v.RR), norms[2])),
              Term(weights[3], F(v.SBP), norms[3])),
            Term(weights[4], F(v.DBP), norms[4])),
          Term(weights[5], v.Temp, norms[5])),
        Term(weights[6], F(v.SpO2), norms[6])),
      Term(weights[7], F(v.GCS), norms[7]))

\* wSum at the end of the seven if statements of VitalComponentWithNorms.
VitalWeightSumWithNorms(v, weights, norms) ==
    AddIf(v.GCS > 0 /\ FGt(norms[7][2], F(0)),
      AddIf(v.SpO2 > 0 /\ FGt(norms[6][2], F(0)),
        AddIf(FNe(v.Temp, F(0)) /\ FGt(norms[5][2], F(0)),
          AddIf(v.DBP > 0 /\ FGt(norms[4][2], F(0)),
            AddIf(v.SBP > 0 /\ FGt(norms[3][2], F(0)),
              AddIf(v.RR > 0 /\ FGt(norms[2][2], F(0)),
                AddIf(v.HR > 0 /\ FGt(norms[1][2], F(0)), F(0), weights[1]),
                weights[2]),
              weights[3]),
            weights[4]),
          weights[5]),
        weights[6]),
      weights[7])

\* score.VitalComponentWithNorms
VitalComponentWithNorms(v, weights, norms) ==
    VitalRatio(VitalSumWithNorms(v, weights, norms),
               VitalWeightSumWithNorms(v, weights, norms))

\* score.PresentCount
PresentCount(v) ==
    (IF v.HR > 0 THEN 1 ELSE 0) + (IF v.RR > 0 THEN 1 ELSE 0)
    + (IF v.SBP > 0 THEN 1 ELSE 0) + (IF v.DBP > 0 THEN 1 ELSE 0)
    + (IF FNe(v.Temp, F(0)) THEN 1 ELSE 0)
    + (IF v.SpO2 > 0 THEN 1 ELSE 0) + (IF v.GCS > 0 THEN 1 ELSE 0)

\* score.ZeroVitals
ZeroVitals ==
    [HR |-> 0, RR |-> 0, SBP |-> 0, DBP |-> 0, Temp |-> F(0), SpO2 |-> 0, GCS |-> 0]

\* score.DefaultNorms
DefaultNorms == <<HRNorm, RRNorm, SBPNorm, DBPNorm, TempNorm, SpO2Norm, GCSNorm>>

\* A faulty AcuityWithNorms, scoring against the built-in reference ranges:
\* ZeroHalfWidthDisables fails with it.
AcuityWithNormsBuiltIn(v, resourceCount, maxResources, vitalWeights, resourceWeight, norms) ==
    Acuity(v, resourceCount, maxResources, vitalWeights, resourceWeight)

\* score.AcuityWithNorms
AcuityWithNorms(v, resourceCount, maxResources, vitalWeights, resourceWeight, norms) ==
    Normalize(AcuityRaw(VitalComponentWithNorms(v, vitalWeights, norms),
                        ResourceComponent(resourceCount, maxResources, resourceWeight)),
              FAdd(WeightSum(vitalWeights), resourceWeight))

(***************************************************************************)
(* package norm                                                            *)
(***************************************************************************)
\* norm.Deviation
Deviation(value, mid, halfWidth) ==
    IF FLe(halfWidth, F(0)) THEN F(0)
    ELSE CapAtOne(FDiv(FAbs(FSub(value, mid)), halfWidth))

(***************************************************************************)
(* package triagegeist: Params, Level, Engine                              *)
(***************************************************************************)
\* triagegeist.DefaultParams
DefaultParams ==
    [VitalWeights   |-> <<Rat(18, 100), Rat(22, 100), Rat(16, 100), Rat(10, 100),
                          Rat(8, 100), Rat(16, 100), Rat(10, 100)>>,
     MaxResources   |-> 6,
     ResourceWeight |-> Rat(25, 100),
     T1 |-> Rat(85, 100), T2 |-> Rat(60, 100), T3 |-> Rat(35, 100), T4 |-> Rat(15, 100)]

\* A faulty PresetStrict, with thresholds above the default ones:
\* PresetsOrdered fails with it.
PresetStrictHigher ==
    [DefaultParams EXCEPT !.T1 = Rat(90, 100), !.T2 = Rat(65, 100),
                          !.T3 = Rat(40, 100), !.T4 = Rat(18, 100)]

\* triagegeist.PresetStrict
PresetStrict ==
    [DefaultParams EXCEPT !.T1 = Rat(80, 100), !.T2 = Rat(55, 100),
                          !.T3 = Rat(30, 100), !.T4 = Rat(12, 100)]

\* triagegeist.PresetLenient
PresetLenient ==
    [DefaultParams EXCEPT !.T1 = Rat(90, 100), !.T2 = Rat(68, 100),
                          !.T3 = Rat(42, 100), !.T4 = Rat(18, 100)]

\* A faulty PresetResearch, with four equal widths down to T4 = 0:
\* PresetsAreValid fails with it.
PresetResearchToZero ==
    [VitalWeights   |-> <<Rat(18, 100), Rat(22, 100), Rat(16, 100), Rat(10, 100),
                          Rat(8, 100), Rat(16, 100), Rat(10, 100)>>,
     MaxResources   |-> 6,
     ResourceWeight |-> Rat(25, 100),
     T1 |-> Rat(75, 100), T2 |-> Rat(50, 100), T3 |-> Rat(25, 100), T4 |-> F(0)]

\* triagegeist.PresetResearch
PresetResearch ==
    [VitalWeights   |-> <<Rat(18, 100), Rat(22, 100), Rat(16, 100), Rat(10, 100),
                          Rat(8, 100), Rat(16, 100), Rat(10, 100)>>,
     MaxResources   |-> 6,
     ResourceWeight |-> Rat(25, 100),
     T1 |-> Rat(80, 100), T2 |-> Rat(60, 100), T3 |-> Rat(40, 100), T4 |-> Rat(20, 100)]

\* Params.IsStricterThan
IsStricterThan(p, q) ==
    FLt(p.T1, q.T1) /\ FLt(p.T2, q.T2) /\ FLt(p.T3, q.T3) /\ FLt(p.T4, q.T4)

\* Params.Validate
Validate(p) ==
    IF p.MaxResources < 0 \/ FLt(p.ResourceWeight, F(0)) THEN FALSE
    ELSE IF \E i \in 1..7 : FLt(p.VitalWeights[i], F(0)) \/ FGt(p.VitalWeights[i], F(1))
         THEN FALSE
    ELSE /\ FGt(p.T1, p.T2)
         /\ FGt(p.T2, p.T3)
         /\ FGt(p.T3, p.T4)
         /\ FGt(p.T4, F(0))
         /\ FLe(p.T1, F(1))

\* Params.WeightSum
ParamsWeightSum(p) ==
    FAdd(FAdd(FAdd(FAdd(FAdd(FAdd(FAdd(F(0), p.VitalWeights[1]), p.VitalWeights[2]),
        p.VitalWeights[3]), p.VitalWeights[4]), p.VitalWeights[5]),
        p.VitalWeights[6]), p.VitalWeights[7])

\* Params.Divisor
Divisor(p) == FAdd(ParamsWeightSum(p), p.ResourceWeight)

\* Params.SetThresholds
SetThresholds(p, t1, t2, t3, t4) ==
    [p EXCEPT !.T1 = t1, !.T2 = t2, !.T3 = t3, !.T4 = t4]

\* Params.Clone
Clone(p) == [p EXCEPT !.VitalWeights = [i \in 1..7 |-> p.VitalWeights[i]]]

\* The largest of w[i..7] and m, as the loop of ScaleWeights finds it.
RECURSIVE RunningMax(_, _, _)
RunningMax(w, i, m) ==
    IF i > 7 THEN m
    ELSE RunningMax(w, i + 1, IF FGt(w[i], m) THEN w[i] ELSE m)

\* Params.ScaleWeights
ScaleWeights(p, factor) ==
    IF FLe(factor, F(0)) THEN p
    ELSE LET scaled == [i \in 1..7 |-> FMul(p.VitalWeights[i], factor)]
             max    == RunningMax(scaled, 1, F(0))
         IN  IF FGt(max, F(0))
             THEN [p EXCEPT !.VitalWeights = [i \in 1..7 |-> FDiv(scaled[i], max)]]
             ELSE [p EXCEPT !.VitalWeights = scaled]

\* Params.NormalizeWeights
NormalizeWeights(p) ==
    LET sum == WeightSum(p.VitalWeights)
    IN  IF FLe(sum, F(0)) THEN p
        ELSE [p EXCEPT !.VitalWeights = [i \in 1..7 |-> FDiv(p.VitalWeights[i], sum)]]

\* Params.EntropyWeights: the constant 1.0 / 7.0 is the float64 nearest to 1/7.
EntropyWeights(p) == [p EXCEPT !.VitalWeights = [i \in 1..7 |-> Rat(1, 7)]]

\* math.Log and math.Exp belong to Go's library and not to the repository:
\* they are NaN for NaN and otherwise tabulated on the arguments that
\* GeometricThresholds passes them here, with the float64 nearest to the
\* exact value (a sign, the two halves of the mantissa and the exponent).
Log(x) ==
    IF IsNaN(x) THEN NaN
    ELSE CASE x = Rat(1, 10) -> Make(-1, 4828870, 1001739541, -51)
           [] x = Rat(9, 10) -> Make(-1, 7070624, 554320220, -56)

Exp(x) ==
    IF IsNaN(x) THEN NaN
    ELSE CASE x = Make(-1, 7814576, 321222080, -52) -> Make(1, 5207129, 728474118, -55)
           [] x = Make(-1, 5971410, 786448725, -52) -> Make(1, 8080661, 154937981, -55)
           [] x = Make(-1, 8256490, 355867092, -53) -> Make(1, 6269969, 124064156, -54)
           [] x = Make(-1, 4570159, 212578560, -53) -> Make(1, 4865011, 977396349, -53)

\* Params.GeometricThresholds, from "logMin := math.Log(min)": the step in
\* log-space, the four thresholds and the cap of T1.
GeometricStep(logMin, logMax) == FDiv(FSub(logMax, logMin), F(5))

GeometricSet(p, logMin, step) ==
    [p EXCEPT !.T4 = Exp(FAdd(logMin, step)),
              !.T3 = Exp(FAdd(logMin, FMul(F(2), step))),
              !.T2 = Exp(FAdd(logMin, FMul(F(3), step))),
              !.T1 = CapAtOne(Exp(FAdd(logMin, FMul(F(4), step))))]

\* Params.GeometricThresholds
GeometricThresholds(p, min, max) ==
    IF FLe(min, F(0)) \/ FLe(max, min) \/ FGt(max, F(1)) THEN p
    ELSE GeometricSet(p, Log(min), GeometricStep(Log(min), Log(max)))

\* Params.CopyWeightsFrom
CopyWeightsFrom(p, q) == [p EXCEPT !.VitalWeights = q.VitalWeights]

\* Params.SetAllThresholds: t is a slice.
SetAllThresholds(p, t) ==
    IF Len(t) # 4 THEN p
    ELSE [p EXCEPT !.T1 = t[1], !.T2 = t[2], !.T3 = t[3], !.T4 = t[4]]

\* Params.SetVitalWeight: i is the Go index, 0..6; any other index is ignored.
SetVitalWeight(p, i, w) ==
    IF i >= 0 /\ i < 7 THEN [p EXCEPT !.VitalWeights[i + 1] = w] ELSE p

\* A faulty FromScore, without the Level 3 band: FromScoreBands fails with it.
FromScoreNoLevel3(score, p) ==
    IF FGe(score, p.T1) THEN 1
    ELSE IF FGe(score, p.T2) THEN 2
    ELSE IF FGe(score, p.T4) THEN 4
    ELSE 5

\* A faulty FromScore, comparing with > : FromScoreAtThreshold fails with it.
FromScoreStrict(score, p) ==
    IF FGt(score, p.T1) THEN 1
    ELSE IF FGt(score, p.T2) THEN 2
    ELSE IF FGt(score, p.T3) THEN 3
    ELSE IF FGt(score, p.T4) THEN 4
    ELSE 5

\* triagegeist.FromScore
FromScore(score, p) ==
    IF FGe(score, p.T1) THEN 1
    ELSE IF FGe(score, p.T2) THEN 2
    ELSE IF FGe(score, p.T3) THEN 3
    ELSE IF FGe(score, p.T4) THEN 4
    ELSE 5

(***************************************************************************)
(* package validate                                                        *)
(***************************************************************************)
\* validate.Params: the report for a ParamsLike.
ValidateParams(p) ==
    LET weightsBad   == \E i \in 1..7 :
                            \/ FLt(p.VitalWeights[i], F(0))
                            \/ FGt(p.VitalWeights[i], F(1))
                            \/ ~finite(p.VitalWeights[i])
        maxResBad    == p.MaxResources < 0
        resourceWBad == FLt(p.ResourceWeight, F(0)) \/ ~finite(p.ResourceWeight)
        thresholdsOK == /\ FGt(p.T1, p.T2)
                        /\ FGt(p.T2, p.T3)
                        /\ FGt(p.T3, p.T4)
                        /\ FGt(p.T4, F(0))
                        /\ FLe(p.T1, F(1))
    IN  [Valid        |-> ~weightsBad /\ ~maxResBad /\ ~resourceWBad /\ thresholdsOK,
         WeightsOK    |-> ~weightsBad,
         ThresholdsOK |-> thresholdsOK,
         MaxResOK     |-> ~maxResBad,
         ResourceWOK  |-> ~resourceWBad]

\* validate.ParamsValid
ParamsValid(p) == ValidateParams(p).Valid

\* triagegeist.ValidateParamsExternal: the ParamsLike has p's seven fields.
ValidateParamsExternal(p) ==
    ParamsValid([VitalWeights   |-> p.VitalWeights,
                 MaxResources   |-> p.MaxResources,
                 ResourceWeight |-> p.ResourceWeight,
                 T1 |-> p.T1, T2 |-> p.T2, T3 |-> p.T3, T4 |-> p.T4])

(***************************************************************************)
(* Engine                                                                  *)
(***************************************************************************)
\* A faulty Engine.Acuity, scoring with the package-level VitalWeights instead
\* of the engine's: WeightZeroDisables fails with it.
EngineAcuityDefaultWeights(p, v, resourceCount) ==
    Acuity(v, resourceCount, p.MaxResources, VitalWeights, p.ResourceWeight)

\* Engine.Acuity on an engine whose parameters are p.
EngineAcuity(p, v, resourceCount) ==
    Acuity(v, resourceCount, p.MaxResources, p.VitalWeights, p.ResourceWeight)

\* A faulty Engine.Level, classifying the score under the package-level
\* VitalWeights: EntryPointsAgree fails with it.
EngineLevelDefaultWeights(p, v, resourceCount) ==
    FromScore(Acuity(v, resourceCount, p.MaxResources, VitalWeights, p.ResourceWeight), p)

\* Engine.Level
EngineLevel(p, v, resourceCount) ==
    FromScore(EngineAcuity(p, v, resourceCount), p)

\* The pair "return acuity, FromScore(acuity, e.P)" of ScoreAndLevel.
WithLevel(acuity, p) == <<acuity, FromScore(acuity, p)>>

\* Engine.ScoreAndLevel
ScoreAndLevel(p, v, resourceCount) == WithLevel(EngineAcuity(p, v, resourceCount), p)

\* The Result built from the pair of ScoreAndLevel.
EvaluateResult(al) == [Acuity |-> al[1], Level |-> al[2]]

\* Engine.Evaluate
Evaluate(p, v, resourceCount) == EvaluateResult(ScoreAndLevel(p, v, resourceCount))

\* A nil slice, and the slice make() and the loop build.
NilSlice == [nil |-> TRUE, elems |-> <<>>]

Slice(s) == [nil |-> FALSE, elems |-> s]

\* Engine.BatchScoreAndLevel
BatchScoreAndLevel(p, vitals, resourceCounts) ==
    LET n == Len(vitals)
    IN  IF Len(resourceCounts) # n THEN <<NilSlice, NilSlice>>
        ELSE <<Slice([i \in 1..n |-> ScoreAndLevel(p, vitals[i], resourceCounts[i])[1]]),
               Slice([i \in 1..n |-> ScoreAndLevel(p, vitals[i], resourceCounts[i])[2]])>>

\* A faulty BatchAcuity, scoring as many items as the shorter input has:
\* BatchMismatchIsNil fails with it.
BatchAcuityTruncating(p, vitals, resourceCounts) ==
    LET n == IF Len(vitals) < Len(resourceCounts) THEN Len(vitals) ELSE Len(resourceCounts)
    IN  Slice([i \in 1..n |-> EngineAcuity(p, vitals[i], resourceCounts[i])])

\* Engine.BatchAcuity
BatchAcuity(p, vitals, resourceCounts) ==
    LET n == Len(vitals)
    IN  IF Len(resourceCounts) # n THEN NilSlice
        ELSE Slice([i \in 1..n |-> EngineAcuity(p, vitals[i], resourceCounts[i])])

\* A faulty BatchLevel, filling its result in reverse order:
\* BatchMatchesSingle fails with it.
BatchLevelReversed(p, vitals, resourceCounts) ==
    LET n == Len(vitals)
    IN  IF Len(resourceCounts) # n THEN NilSlice
        ELSE Slice([i \in 1..n |->
                        EngineLevel(p, vitals[n + 1 - i], resourceCounts[n + 1 - i])])

\* Engine.BatchLevel
BatchLevel(p, vitals, resourceCounts) ==
    LET n == Len(vitals)
    IN  IF Len(resourceCounts) # n THEN NilSlice
        ELSE Slice([i \in 1..n |-> EngineLevel(p, vitals[i], resourceCounts[i])])

\* Engine.BatchEvaluate
BatchEvaluate(p, vitals, resourceCounts) ==
    LET n == Len(vitals)
    IN  IF Len(resourceCounts) # n THEN NilSlice
        ELSE Slice([i \in 1..n |-> Evaluate(p, vitals[i], resourceCounts[i])])

\* A faulty ScoreAndLevelWithResourceClamp, taking a count above the cap as
\* 0: ResourceClampChangesNothing fails with it.
ScoreAndLevelWithResourceReset(p, v, resourceCount) ==
    LET rc0 == IF resourceCount < 0 THEN 0 ELSE resourceCount
        rc  == IF rc0 > p.MaxResources THEN 0 ELSE rc0
    IN  ScoreAndLevel(p, v, rc)

\* Engine.ScoreAndLevelWithResourceClamp
ScoreAndLevelWithResourceClamp(p, v, resourceCount) ==
    LET rc0 == IF resourceCount < 0 THEN 0 ELSE resourceCount
        rc  == IF rc0 > p.MaxResources THEN p.MaxResources ELSE rc0
    IN  ScoreAndLevel(p, v, rc)

(***************************************************************************)
(* package validate: vitals and resource count                             *)
(***************************************************************************)
\* Bounds for each vital: <<min, max>>.
HRBounds == <<20, 300>>

RRBounds == <<0, 60>>

SBPBounds == <<40, 300>>

DBPBounds == <<20, 200>>

SpO2Bounds == <<0, 100>>

GCSBounds == <<3, 15>>

TempBounds == <<F(30), F(45)>>

\* The status validate.Vitals gives an integer vital x with bounds b.
IntStatus(x, b) ==
    IF x # 0
    THEN IF x < b[1] \/ x > b[2] THEN "invalid" ELSE "ok"
    ELSE "missing"

\* The status validate.Vitals gives the temperature.
TempStatus(x) ==
    IF FNe(x, F(0))
    THEN IF FLt(x, TempBounds[1]) \/ FGt(x, TempBounds[2]) THEN "invalid" ELSE "ok"
    ELSE "missing"

\* validate.Vitals: the report for v.
ValidateVitals(v) ==
    LET r == [HR   |-> IntStatus(v.HR, HRBounds),
              RR   |-> IntStatus(v.RR, RRBounds),
              SBP  |-> IntStatus(v.SBP, SBPBounds),
              DBP  |-> IntStatus(v.DBP, DBPBounds),
              Temp |-> TempStatus(v.Temp),
              SpO2 |-> IntStatus(v.SpO2, SpO2Bounds),
              GCS  |-> IntStatus(v.GCS, GCSBounds)]
    IN  [Valid |-> \A f \in DOMAIN r : r[f] # "invalid",
         HR |-> r.HR, RR |-> r.RR, SBP |-> r.SBP, DBP |-> r.DBP, Temp |-> r.Temp,
         SpO2 |-> r.SpO2, GCS |-> r.GCS,
         Clamped |-> v]

\* One integer field of ClampVitals: "if v.X != 0 { if v.X < min ... }".
ClampInt(x, b) ==
    IF x # 0
    THEN IF x < b[1] THEN b[1] ELSE IF x > b[2] THEN b[2] ELSE x
    ELSE x

\* The temperature field of ClampVitals.
ClampTemp(x) ==
    IF FNe(x, F(0))
    THEN IF FLt(x, TempBounds[1]) THEN TempBounds[1]
         ELSE IF FGt(x, TempBounds[2]) THEN TempBounds[2] ELSE x
    ELSE x

\* validate.ClampVitals
ClampVitals(v) ==
    [HR   |-> ClampInt(v.HR, HRBounds),
     RR   |-> ClampInt(v.RR, RRBounds),
     SBP  |-> ClampInt(v.SBP, SBPBounds),
     DBP  |-> ClampInt(v.DBP, DBPBounds),
     Temp |-> ClampTemp(v.Temp),
     SpO2 |-> ClampInt(v.SpO2, SpO2Bounds),
     GCS  |-> ClampInt(v.GCS, GCSBounds)]

\* A faulty validate.ResourceCount, without the floor at 0:
\* ResourceCountClamps fails with it.
ResourceCountNoFloor(count, maxResources) ==
    IF maxResources <= 0 THEN 0
    ELSE IF count > maxResources THEN maxResources
    ELSE count

\* validate.ResourceCount
ResourceCount(count, maxResources) ==
    IF maxResources <= 0 THEN 0
    ELSE IF count < 0 THEN 0
    ELSE IF count > maxResources THEN maxResources
    ELSE count

(***************************************************************************)
(* package metrics: ConfusionMatrix                                        *)
(***************************************************************************)
\* The zero ConfusionMatrix: N[i][j] counts the pairs whose reference level is
\* i and whose predicted level is j.
ZeroMatrix == [N |-> [i \in 1..5 |-> [j \in 1..5 |-> 0]], Total |-> 0]

\* The loop of NewConfusionMatrix from index k on, starting from cm.
RECURSIVE CountPairs(_, _, _, _)
CountPairs(cm, predicted, reference, k) ==
    IF k > Len(predicted) THEN cm
    ELSE LET p == predicted[k]
             r == reference[k]
         IN  IF p < 1 \/ p > 5 \/ r < 1 \/ r > 5
             THEN CountPairs(cm, predicted, reference, k + 1)
             ELSE CountPairs([N |-> [cm.N EXCEPT ![r][p] = @ + 1],
                              Total |-> cm.Total + 1],
                             predicted, reference, k + 1)

\* metrics.NewConfusionMatrix
NewConfusionMatrix(predicted, reference) ==
    IF Len(predicted) # Len(reference) THEN ZeroMatrix
    ELSE CountPairs(ZeroMatrix, predicted, reference, 1)

\* ConfusionMatrix.OverallAccuracy
OverallAccuracy(cm) ==
    IF cm.Total = 0 THEN F(0)
    ELSE LET diag == cm.N[1][1] + cm.N[2][2] + cm.N[3][3] + cm.N[4][4] + cm.N[5][5]
         IN  FDiv(F(diag), F(cm.Total))

\* sumPred[j], the j-th column sum, and sumRef[i], the i-th row sum.
SumPred(cm, j) == cm.N[1][j] + cm.N[2][j] + cm.N[3][j] + cm.N[4][j] + cm.N[5][j]

SumRef(cm, i) == cm.N[i][1] + cm.N[i][2] + cm.N[i][3] + cm.N[i][4] + cm.N[i][5]

\* One term of pExp: sumPred[i] * sumRef[i] / (t * t).
ExpTerm(cm, i) ==
    FDiv(FMul(F(SumPred(cm, i)), F(SumRef(cm, i))), FMul(F(cm.Total), F(cm.Total)))

\* pObs and pExp of CohenKappa, for Total > 0.
PObs(cm) ==
    FDiv(F(cm.N[1][1] + cm.N[2][2] + cm.N[3][3] + cm.N[4][4] + cm.N[5][5]), F(cm.Total))

PExp(cm) ==
    FAdd(FAdd(FAdd(FAdd(FAdd(F(0), ExpTerm(cm, 1)), ExpTerm(cm, 2)), ExpTerm(cm, 3)),
              ExpTerm(cm, 4)), ExpTerm(cm, 5))

\* A faulty CohenKappa, without the "pExp >= 1" guard: PerfectAgreement fails
\* with it.
CohenKappaUnguarded(cm) ==
    IF cm.Total = 0 THEN F(0)
    ELSE FDiv(FSub(PObs(cm), PExp(cm)), FSub(F(1), PExp(cm)))

\* ConfusionMatrix.CohenKappa
CohenKappa(cm) ==
    IF cm.Total = 0 THEN F(0)
    ELSE IF FGe(PExp(cm), F(1)) THEN F(0)
    ELSE FDiv(FSub(PObs(cm), PExp(cm)), FSub(F(1), PExp(cm)))

(***************************************************************************)
(* A call and its return.  A call is made when no call is in progress      *)
(* (op = "idle"); it records its arguments and its result; Return hands    *)
(* the result to the caller, who may then make the next call.              *)
(***************************************************************************)
Return ==
    /\ op # "idle"
    /\ op' = "idle"
    /\ args' = <<>>
    /\ ret' = <<>>
    /\ UNCHANGED <<P, last, pkg>>

(***************************************************************************)
(* SpecScore: calls of the component functions of package score.           *)
(***************************************************************************)
\* The largest resource count passed to ResourceComponent.
MaxRC == 8

Zero7 == <<F(0), F(0), F(0), F(0), F(0), F(0), F(0)>>

\* Weights 0.1, 0.2 and -0.3: their float64 sum is 2^-54 and not 0.
RoundedWeights == [Zero7 EXCEPT ![1] = Rat(1, 10), ![2] = Rat(2, 10), ![3] = Rat(-3, 10)]

\* Two finite weights whose sum overflows to +Inf.
HugeWeights == [Zero7 EXCEPT ![1] = MaxFloat64, ![2] = MaxFloat64]

\* Weight vectors: the default, all zero, one vital disabled, negative
\* weights (sum below, at and above zero), weights above 1, weights whose sum
\* is rounded, weights whose sum overflows, non-finite weights.
ScoreWeights ==
    { VitalWeights,
      Zero7,
      [VitalWeights EXCEPT ![5] = F(0)],
      [Zero7 EXCEPT ![1] = Rat(-1, 2), ![2] = Rat(1, 4)],
      [Zero7 EXCEPT ![1] = F(2), ![2] = Rat(-1, 2), ![5] = F(1)],
      RoundedWeights,
      HugeWeights,
      [VitalWeights EXCEPT ![1] = NaN],
      [VitalWeights EXCEPT ![2] = PosInf] }

\* Vitals: every field missing (0) or present; a negative integer vital, a
\* negative and a NaN temperature; deviations of 0, 1/2, 3/4, 1 and above 1.
ScoreVitals ==
    [HR : {0, -5, 100}, RR : {0, 21}, SBP : {0, 90}, DBP : {0, 80},
     Temp : {F(0), F(38), F(-1), NaN}, SpO2 : {0, 80}, GCS : {0, 9}]

\* norm.PediatricRanges, as the [7][2]float64 the WithNorms functions take.
PediatricNorms ==
    <<<<F(100), F(50)>>, <<F(24), F(14)>>, <<F(90), F(30)>>, <<F(60), F(25)>>,
      <<F(37), F(2)>>, <<F(98), F(8)>>, <<F(15), F(6)>>>>

\* Reference ranges with a zero and a negative half-width and a zero midpoint.
DisabledNorms ==
    [DefaultNorms EXCEPT ![1] = <<F(80), F(0)>>, ![2] = <<F(16), F(-10)>>,
                         ![5] = <<F(0), F(2)>>]

\* Reference ranges with a NaN midpoint.
NaNNorms == [DefaultNorms EXCEPT ![1] = <<NaN, F(40)>>]

\* Reference ranges with a zero half-width for the temperature and an
\* infinitely negative one for the GCS.
TempDisabledNorms ==
    [DefaultNorms EXCEPT ![5] = <<F(37), F(0)>>, ![7] = <<F(15), NegInf>>]

ScoreNorms == {DefaultNorms, PediatricNorms, DisabledNorms, NaNNorms, TempDisabledNorms}

\* maxResources and weight arguments of ResourceComponent.
ScoreMaxResources == {-1, 0, 1, 6}

ScoreResourceWeights == {Rat(1, 4), Rat(1, 10), F(0), Rat(-1, 4), F(2), PosInf, NaN}

InitScore ==
    /\ InitPkg
    /\ P = DefaultParams
    /\ op = "idle"
    /\ args = <<>>
    /\ ret = <<>>
    /\ last = <<>>

CallVitalComponent(v, weights) ==
    /\ op = "idle"
    /\ op' = "VitalComponent"
    /\ args' = [v |-> v, weights |-> weights]
    /\ ret' = VitalComponent(v, weights)
    /\ UNCHANGED <<P, last, pkg>>

CallVitalComponentWithNorms(v, weights, norms) ==
    /\ op = "idle"
    /\ op' = "VitalComponentWithNorms"
    /\ args' = [v |-> v, weights |-> weights, norms |-> norms]
    /\ ret' = VitalComponentWithNorms(v, weights, norms)
    /\ UNCHANGED <<P, last, pkg>>

CallResourceComponent(resourceCount, maxResources, weight) ==
    /\ op = "idle"
    /\ op' = "ResourceComponent"
    /\ args' = [resourceCount |-> resourceCount, maxResources |-> maxResources,
                weight |-> weight]
    /\ ret' = ResourceComponent(resourceCount, maxResources, weight)
    /\ UNCHANGED <<P, last, pkg>>

\* Arguments of the deviation primitives: values below, at and above the
\* midpoint, by less than, exactly and more than the half-width; positive,
\* zero and negative midpoints and half-widths.
DeviationValues == {F(-3), F(-1), F(0), F(35), F(36), F(37), F(38), F(39), F(77)}

DeviationMids == {F(37), F(0), F(-2)}

DeviationHalfWidths == {F(2), F(40), F(0), F(-1)}

CallDeviation(v, mid, hw) ==
    /\ op = "idle"
    /\ op' = "score.deviation"
    /\ args' = [v |-> v, mid |-> mid, hw |-> hw]
    /\ ret' = deviation(v, mid, hw)
    /\ UNCHANGED <<P, last, pkg>>

CallNormDeviation(value, mid, halfWidth) ==
    /\ op = "idle"
    /\ op' = "norm.Deviation"
    /\ args' = [v |-> value, mid |-> mid, hw |-> halfWidth]
    /\ ret' = Deviation(value, mid, halfWidth)
    /\ UNCHANGED <<P, last, pkg>>

NextScore ==
    \/ /\ op = "idle"
       /\ \E v \in ScoreVitals, w \in ScoreWeights : CallVitalComponent(v, w)
    \/ /\ op = "idle"
       /\ \E v \in ScoreVitals, w \in ScoreWeights, norms \in ScoreNorms :
                CallVitalComponentWithNorms(v, w, norms)
    \/ /\ op = "idle"
       /\ \E rc \in -1..MaxRC, m \in ScoreMaxResources, w \in ScoreResourceWeights :
                CallResourceComponent(rc, m, w)
    \/ /\ op = "idle"
       /\ \E v \in DeviationValues, mid \in DeviationMids, hw \in DeviationHalfWidths :
                CallDeviation(v, mid, hw)
    \/ /\ op = "idle"
       /\ \E v \in DeviationValues, mid \in DeviationMids, hw \in DeviationHalfWidths :
                CallNormDeviation(v, mid, hw)
    \/ Return

SpecScore == InitScore /\ [][NextScore]_vars

(***************************************************************************)
(* Spec: an Engine built by NewEngine(p), and the calls made on it: the    *)
(* single and batch evaluations, and score.Acuity and                      *)
(* score.AcuityWithNorms called with the engine's weights and resource     *)
(* parameters.                                                             *)
(***************************************************************************)
\* The longest batch.
MaxBatch == 2

\* DefaultParams with some fields replaced.
WithWeights(w) == [DefaultParams EXCEPT !.VitalWeights = w]

WithResources(maxResources, resourceWeight) ==
    [DefaultParams EXCEPT !.MaxResources = maxResources, !.ResourceWeight = resourceWeight]

\* Parameter sets an engine is built with: the default; zero and negative
\* weights; a zero and a negative divisor; zero and negative MaxResources;
\* a negative, a large, an infinite and a NaN resource weight; non-finite
\* weights; admissible weights whose sum is above 1, with a small resource
\* weight and with one of 2^60, next to which the divisor and raw round to
\* the same float64; weights whose sum is rounded to a positive value, and
\* finite weights whose sum overflows.
EngineParams ==
    { DefaultParams,
      WithWeights(<<Rat(1, 2), Rat(1, 2), Rat(1, 2), Rat(1, 2),
                    Rat(1, 2), Rat(1, 2), Rat(1, 2)>>),
      WithWeights(Zero7),
      [WithWeights(Zero7) EXCEPT !.ResourceWeight = F(0)],
      [WithWeights([Zero7 EXCEPT ![1] = Rat(-1, 2), ![2] = Rat(1, 4)])
            EXCEPT !.ResourceWeight = F(0)],
      WithWeights([Zero7 EXCEPT ![1] = F(1), ![2] = Rat(-1, 2)]),
      WithWeights([VitalWeights EXCEPT ![5] = F(0)]),
      WithResources(0, Rat(1, 4)),
      WithResources(-1, Rat(1, 4)),
      WithResources(6, Rat(-1, 4)),
      WithResources(6, PosInf),
      [WithWeights(<<Rat(1, 10), Rat(1, 10), Rat(1, 10), Rat(1, 10),
                     Rat(1, 10), Rat(1, 10), Rat(1, 10)>>)
            EXCEPT !.MaxResources = 2, !.ResourceWeight = F(2)],
      [WithWeights(<<Rat(1, 2), Rat(1, 2), Rat(1, 2), Rat(1, 2),
                     Rat(1, 2), Rat(1, 2), Rat(1, 2)>>)
            EXCEPT !.ResourceWeight = Make(1, 2^22, 0, 8)],
      WithResources(6, NaN),
      [WithWeights(RoundedWeights) EXCEPT !.ResourceWeight = F(0)],
      WithWeights(HugeWeights),
      WithWeights([VitalWeights EXCEPT ![1] = NaN]),
      WithWeights([VitalWeights EXCEPT ![2] = PosInf]) }

\* Every vital at or beyond the edge of its reference range.
AllDeviant ==
    [HR |-> 160, RR |-> 40, SBP |-> 60, DBP |-> 120, Temp |-> F(40),
     SpO2 |-> 80, GCS |-> 3]

\* The vitals of ExampleEngine_ScoreAndLevel.
ExampleVitals ==
    [HR |-> 120, RR |-> 24, SBP |-> 90, DBP |-> 0, Temp |-> F(0), SpO2 |-> 92, GCS |-> 0]

\* One vital present, at or beyond the edge of its reference range.
SingleDeviant ==
    { [ZeroVitals EXCEPT !.HR = 160], [ZeroVitals EXCEPT !.RR = 40],
      [ZeroVitals EXCEPT !.SBP = 60], [ZeroVitals EXCEPT !.DBP = 120],
      [ZeroVitals EXCEPT !.Temp = F(40)], [ZeroVitals EXCEPT !.SpO2 = 80],
      [ZeroVitals EXCEPT !.GCS = 3] }

\* Vitals the engine is called with.
EngineVitals ==
    [HR : {0, 120}, RR : {0, 24}, SBP : {0}, DBP : {0},
     Temp : {F(0), F(38), F(-1), NaN}, SpO2 : {0, 92}, GCS : {0}]
    \cup {AllDeviant, ExampleVitals} \cup SingleDeviant

\* Resource counts the engine is called with.
EngineRCs == {-1, 0, 3, 100}

\* The elements of the batches.
BatchVitals ==
    { [HR |-> 0, RR |-> 0, SBP |-> 0, DBP |-> 0, Temp |-> F(0), SpO2 |-> 0, GCS |-> 0],
      [HR |-> 120, RR |-> 24, SBP |-> 90, DBP |-> 0, Temp |-> F(0), SpO2 |-> 92, GCS |-> 0],
      AllDeviant }

BatchRCs == {0, 6}

\* The sequences over S of length at most n.
SeqsUpTo(S, n) == UNION {[1..k -> S] : k \in 0..n}

\* triagegeist.NewEngine
NewEngine(p) ==
    /\ op = "idle"
    /\ P' = p
    /\ UNCHANGED <<op, args, ret, last, pkg>>

Init ==
    /\ InitPkg
    /\ P \in EngineParams
    /\ op = "idle"
    /\ args = <<>>
    /\ ret = <<>>
    /\ last = <<>>

\* A call of a method taking (vitals, resourceCount), with result r.
Single(name, v, rc, r) ==
    /\ op = "idle"
    /\ op' = name
    /\ args' = [v |-> v, rc |-> rc]
    /\ ret' = r
    /\ UNCHANGED <<P, last, pkg>>

CallEngineAcuity(v, rc) == Single("Engine.Acuity", v, rc, EngineAcuity(P, v, rc))

CallLevel(v, rc) == Single("Engine.Level", v, rc, EngineLevel(P, v, rc))

CallScoreAndLevel(v, rc) == Single("Engine.ScoreAndLevel", v, rc, ScoreAndLevel(P, v, rc))

CallEvaluate(v, rc) == Single("Engine.Evaluate", v, rc, Evaluate(P, v, rc))

CallScoreAndLevelWithResourceClamp(v, rc) ==
    Single("Engine.ScoreAndLevelWithResourceClamp", v, rc,
           ScoreAndLevelWithResourceClamp(P, v, rc))

CallAcuity(v, rc) ==
    Single("score.Acuity", v, rc,
           Acuity(v, rc, P.MaxResources, P.VitalWeights, P.ResourceWeight))

CallAcuityWithNorms(v, rc, norms) ==
    /\ op = "idle"
    /\ op' = "score.AcuityWithNorms"
    /\ args' = [v |-> v, rc |-> rc, norms |-> norms]
    /\ ret' = AcuityWithNorms(v, rc, P.MaxResources, P.VitalWeights,
                              P.ResourceWeight, norms)
    /\ UNCHANGED <<P, last, pkg>>

\* A call of a batch method, with result r.
Batch(name, vitals, resourceCounts, r) ==
    /\ op = "idle"
    /\ op' = name
    /\ args' = [vitals |-> vitals, resourceCounts |-> resourceCounts]
    /\ ret' = r
    /\ UNCHANGED <<P, last, pkg>>

CallBatchScoreAndLevel(vs, rcs) ==
    Batch("Engine.BatchScoreAndLevel", vs, rcs, BatchScoreAndLevel(P, vs, rcs))

CallBatchAcuity(vs, rcs) ==
    Batch("Engine.BatchAcuity", vs, rcs, BatchAcuity(P, vs, rcs))

CallBatchLevel(vs, rcs) ==
    Batch("Engine.BatchLevel", vs, rcs, BatchLevel(P, vs, rcs))

CallBatchEvaluate(vs, rcs) ==
    Batch("Engine.BatchEvaluate", vs, rcs, BatchEvaluate(P, vs, rcs))

SingleCalls ==
    /\ op = "idle"
    /\ \E v \in EngineVitals, rc \in EngineRCs :
          \/ CallEngineAcuity(v, rc)
          \/ CallLevel(v, rc)
          \/ CallScoreAndLevel(v, rc)
          \/ CallEvaluate(v, rc)
          \/ CallScoreAndLevelWithResourceClamp(v, rc)
          \/ CallAcuity(v, rc)
          \/ \E norms \in ScoreNorms : CallAcuityWithNorms(v, rc, norms)

BatchCalls ==
    /\ op = "idle"
    /\ \E vs \in SeqsUpTo(BatchVitals, MaxBatch), rcs \in SeqsUpTo(BatchRCs, MaxBatch) :
          \/ CallBatchScoreAndLevel(vs, rcs)
          \/ CallBatchAcuity(vs, rcs)
          \/ CallBatchLevel(vs, rcs)
          \/ CallBatchEvaluate(vs, rcs)

Next ==
    \/ \E p \in EngineParams : NewEngine(p)
    \/ SingleCalls
    \/ BatchCalls
    \/ Return

Spec == Init /\ [][Next]_vars

(***************************************************************************)
(* SpecParams: a Params value built from DefaultParams by assigning its    *)
(* resource fields and calling its setters, and the two validations of it. *)
(***************************************************************************)
\* Values assigned to MaxResources and to ResourceWeight.
ParamsMaxResources == {-1, 0, 6}

ParamsResourceWeights == {Rat(-1, 4), Rat(1, 4), PosInf, NaN}

\* Thresholds passed to SetThresholds: every one of the five conditions on
\* the thresholds fails for some choice, and holds for some.
ParamsT1 == {Rat(1, 2), F(1), Rat(5, 4)}

ParamsT2 == {Rat(3, 5), F(1)}

ParamsT3 == {Rat(1, 4), Rat(3, 5), NaN}

ParamsT4 == {F(0), Rat(1, 8), Rat(1, 4)}

\* Indices and weights passed to SetVitalWeight.
ParamsIndices == {-1, 0, 7}

ParamsWeights == {F(0), F(1), Rat(11, 10), Rat(-1, 10), NaN, PosInf}

InitParams ==
    /\ InitPkg
    /\ P \in {[DefaultParams EXCEPT !.MaxResources = m, !.ResourceWeight = rw] :
                 m \in ParamsMaxResources, rw \in ParamsResourceWeights}
    /\ op = "idle"
    /\ args = <<>>
    /\ ret = <<>>
    /\ last = <<>>

\* The preset constructors, by name.
Presets ==
    {<<"DefaultParams", DefaultParams>>, <<"PresetStrict", PresetStrict>>,
     <<"PresetLenient", PresetLenient>>, <<"PresetResearch", PresetResearch>>}

PresetNames == {pr[1] : pr \in Presets}

\* p = PresetStrict() and the like: the Params value becomes the preset.
CallPreset(name, preset) ==
    /\ op = "idle"
    /\ P' = preset
    /\ op' = name
    /\ args' = <<>>
    /\ ret' = preset
    /\ UNCHANGED <<last, pkg>>

CallSetThresholds(t1, t2, t3, t4) ==
    /\ op = "idle"
    /\ P' = SetThresholds(P, t1, t2, t3, t4)
    /\ op' = "Params.SetThresholds"
    /\ args' = <<t1, t2, t3, t4>>
    /\ ret' = <<>>
    /\ UNCHANGED <<last, pkg>>

CallSetVitalWeight(i, w) ==
    /\ op = "idle"
    /\ P' = SetVitalWeight(P, i, w)
    /\ op' = "Params.SetVitalWeight"
    /\ args' = <<i, w>>
    /\ ret' = <<>>
    /\ UNCHANGED <<last, pkg>>

CallValidate ==
    /\ op = "idle"
    /\ op' = "Params.Validate"
    /\ args' = <<>>
    /\ ret' = Validate(P)
    /\ UNCHANGED <<P, last, pkg>>

CallValidateParamsExternal ==
    /\ op = "idle"
    /\ op' = "ValidateParamsExternal"
    /\ args' = <<P>>
    /\ ret' = ValidateParamsExternal(P)
    /\ UNCHANGED <<P, last, pkg>>

NextParams ==
    \/ /\ op = "idle"
       /\ \E t1 \in ParamsT1, t2 \in ParamsT2, t3 \in ParamsT3, t4 \in ParamsT4 :
             CallSetThresholds(t1, t2, t3, t4)
    \/ /\ op = "idle"
       /\ \E i \in ParamsIndices, w \in ParamsWeights : CallSetVitalWeight(i, w)
    \/ /\ op = "idle"
       /\ \E pr \in Presets : CallPreset(pr[1], pr[2])
    \/ CallValidate
    \/ CallValidateParamsExternal
    \/ Return

SpecParams == InitParams /\ [][NextParams]_vars

(***************************************************************************)
(* SpecLevel: FromScore on the thresholds of a Params value.               *)
(***************************************************************************)
\* Thresholds and scores are multiples of 1/LevelGrid.
LevelGrid == 8

LevelPoints == {Rat(k, LevelGrid) : k \in 0..LevelGrid}

\* Thresholds passed to SetThresholds: every non-increasing choice of grid
\* points (the strictly decreasing ones with T4 > 0 are the valid ones).
LevelThresholds ==
    {t \in LevelPoints \X LevelPoints \X LevelPoints \X LevelPoints :
        FGe(t[1], t[2]) /\ FGe(t[2], t[3]) /\ FGe(t[3], t[4])}

\* Scores: the grid points, the points halfway between them, one below 0 and
\* one above 1, the thresholds of the presets and the score 0.72.
LevelScores ==
    {Rat(k, 2 * LevelGrid) : k \in -1..(2 * LevelGrid + 1)}
    \cup {DefaultParams.T1, DefaultParams.T2, DefaultParams.T3, DefaultParams.T4,
          Rat(72, 100)}
    \cup UNION {{pr[2].T1, pr[2].T2, pr[2].T3, pr[2].T4} : pr \in Presets}

InitLevel ==
    /\ InitPkg
    /\ P = DefaultParams
    /\ op = "idle"
    /\ args = <<>>
    /\ ret = <<>>
    /\ last = <<>>

CallFromScore(score) ==
    /\ op = "idle"
    /\ op' = "FromScore"
    /\ args' = <<score>>
    /\ ret' = FromScore(score, P)
    /\ UNCHANGED <<P, last, pkg>>

NextLevel ==
    \/ /\ op = "idle"
       /\ \E t \in LevelThresholds : CallSetThresholds(t[1], t[2], t[3], t[4])
    \/ /\ op = "idle"
       /\ \E score \in LevelScores : CallFromScore(score)
    \/ /\ op = "idle"
       /\ \E pr \in Presets : CallPreset(pr[1], pr[2])
    \/ Return

SpecLevel == InitLevel /\ [][NextLevel]_vars

(***************************************************************************)
(* Properties                                                              *)
(***************************************************************************)
\* 0 <= x <= 1 (false of NaN).
InUnit(x) == FLe(F(0), x) /\ FLe(x, F(1))

\* x clamped to [0, 1].
Clamp01(x) == IF FGt(x, F(1)) THEN F(1) ELSE IF FLt(x, F(0)) THEN F(0) ELSE x

AcuityOps == {"Engine.Acuity", "score.Acuity", "score.AcuityWithNorms"}

\* The temperature, the weights, the resource weight and, for
\* AcuityWithNorms, the reference ranges of the call in progress are finite.
FiniteInputs ==
    /\ finite(args.v.Temp)
    /\ \A i \in 1..7 : finite(P.VitalWeights[i])
    /\ finite(P.ResourceWeight)
    /\ op = "score.AcuityWithNorms" =>
          \A i \in 1..7 : finite(args.norms[i][1]) /\ finite(args.norms[i][2])

\* C1, for the finite inputs the specification speaks of: Engine.Acuity,
\* score.Acuity and score.AcuityWithNorms return a score in [0, 1] for every
\* Vitals with a finite temperature, every resource count and every Params
\* whose weights and resource weight are finite (valid or not), with finite
\* reference ranges.
ScoreInUnit == (op \in AcuityOps /\ FiniteInputs) => InUnit(ret)

\* C2: Engine.Acuity returns 0 when D <= 0 and otherwise (V + R) / D clamped
\* to [0, 1], where V is the vital component, R the resource component and
\* D = Params.Divisor(), whichever vitals are present.
AcuityOverDivisor ==
    op = "Engine.Acuity" =>
        LET V == VitalComponent(args.v, P.VitalWeights)
            R == ResourceComponent(args.rc, P.MaxResources, P.ResourceWeight)
            D == Divisor(P)
        IN  ret = IF FLe(D, F(0)) THEN F(0) ELSE Clamp01(FDiv(FAdd(V, R), D))

\* Engine.Acuity returned a score strictly between 0 and 1 for vitals of
\* which some are present and some are missing, with a positive divisor.
AcuityOverDivisorWitness ==
    /\ op = "Engine.Acuity"
    /\ args.v.HR = 0
    /\ args.v.RR > 0
    /\ args.rc > 0
    /\ FGt(Divisor(P), F(0))
    /\ FGt(ret, F(0))
    /\ FLt(ret, F(1))

\* The i-th vital of v as a float64, and the presence test of the claim.
VitalValue(v, i) ==
    CASE i = 1 -> F(v.HR) [] i = 2 -> F(v.RR) [] i = 3 -> F(v.SBP) [] i = 4 -> F(v.DBP)
      [] i = 5 -> v.Temp  [] i = 6 -> F(v.SpO2) [] i = 7 -> F(v.GCS)

VitalPresent(v, i) ==
    IF i = 5 THEN FNe(v.Temp, F(0)) ELSE FGt(VitalValue(v, i), F(0))

\* The sum of t[i] over the i of 1..k that are in S.
RECURSIVE SumOver(_, _, _)
SumOver(t, S, k) ==
    IF k = 0 THEN F(0)
    ELSE IF k \in S THEN FAdd(SumOver(t, S, k - 1), t[k]) ELSE SumOver(t, S, k - 1)

\* (sum of w_i * d_i) / (sum of w_i) over the present vitals whose half-width
\* is positive, capped at 1, and 0 when the weight sum is <= 0.
WeightedMeanDeviation(v, weights, norms) ==
    LET used == {i \in 1..7 : VitalPresent(v, i) /\ FGt(norms[i][2], F(0))}
        wd   == [i \in 1..7 |->
                    FMul(weights[i], deviation(VitalValue(v, i), norms[i][1], norms[i][2]))]
        sum  == SumOver(wd, used, 7)
        wSum == SumOver(weights, used, 7)
    IN  IF FLe(wSum, F(0)) THEN F(0)
        ELSE IF FGt(FDiv(sum, wSum), F(1)) THEN F(1) ELSE FDiv(sum, wSum)

\* C3: VitalComponent and VitalComponentWithNorms both return the weighted
\* mean deviation over the vitals that are present (integer vitals > 0,
\* temperature not 0) and have a positive half-width.
VitalComponentsAreWeightedMean ==
    /\ op = "VitalComponent" =>
          ret = WeightedMeanDeviation(args.v, args.weights, DefaultNorms)
    /\ op = "VitalComponentWithNorms" =>
          ret = WeightedMeanDeviation(args.v, args.weights, args.norms)

\* weight * min(1, resourceCount / maxResources)
CappedShare(resourceCount, maxResources, weight) ==
    LET r == FDiv(F(resourceCount), F(maxResources))
    IN  FMul(weight, IF FLt(r, F(1)) THEN r ELSE F(1))

\* C4: ResourceComponent is 0 when maxResources <= 0, weight <= 0 or
\* resourceCount <= 0 and weight * min(1, resourceCount / maxResources)
\* otherwise; it is weight for every resourceCount >= maxResources > 0, and
\* no smaller resource count gives a larger result.
ResourceComponentSaturates ==
    op = "ResourceComponent" =>
        LET rc == args.resourceCount
            m  == args.maxResources
            w  == args.weight
        IN  /\ (m <= 0 \/ FLe(w, F(0)) \/ rc <= 0) => ret = F(0)
            /\ ~(m <= 0 \/ FLe(w, F(0)) \/ rc <= 0) => ret = CappedShare(rc, m, w)
            /\ (rc >= m /\ m > 0 /\ FGt(w, F(0))) => ret = w
            /\ \A lower \in -1..rc : ~FGt(ResourceComponent(lower, m, w), ret)

\* ResourceComponent returned the weight for a resource count above
\* maxResources.
ResourceComponentSaturatesWitness ==
    /\ op = "ResourceComponent"
    /\ args.maxResources > 1
    /\ args.resourceCount > args.maxResources
    /\ FGt(args.weight, F(0))
    /\ finite(args.weight)
    /\ ret = args.weight

\* 1 >= T1 > T2 > T3 > T4 > 0
ThresholdsValid(p) ==
    /\ FGe(F(1), p.T1)
    /\ FGt(p.T1, p.T2)
    /\ FGt(p.T2, p.T3)
    /\ FGt(p.T3, p.T4)
    /\ FGt(p.T4, F(0))

\* The bands of the claim that contain s.
BandsOf(s, p) ==
    {L \in 1..5 :
        \/ L = 1 /\ FGe(s, p.T1)
        \/ L = 2 /\ FLe(p.T2, s) /\ FLt(s, p.T1)
        \/ L = 3 /\ FLe(p.T3, s) /\ FLt(s, p.T2)
        \/ L = 4 /\ FLe(p.T4, s) /\ FLt(s, p.T3)
        \/ L = 5 /\ FLt(s, p.T4)}

\* C5: with valid thresholds and a score s in [0, 1], s lies in exactly one
\* band and FromScore returns that band's level; no score below s gets a
\* smaller level number; FromScore(0.72, DefaultParams()) is Level 2.
FromScoreBands ==
    op = "FromScore" =>
        /\ (ThresholdsValid(P) /\ InUnit(args[1])) =>
              /\ BandsOf(args[1], P) = {ret}
              /\ \A lower \in LevelScores :
                    (InUnit(lower) /\ FLe(lower, args[1])) => FromScore(lower, P) >= ret
        /\ (P = DefaultParams /\ args[1] = Rat(72, 100)) => ret = 2

\* FromScore returned Level 3 for a score strictly inside the Level 3 band of
\* valid thresholds other than the default ones.
FromScoreBandsWitness ==
    /\ op = "FromScore"
    /\ ThresholdsValid(P)
    /\ P # DefaultParams
    /\ InUnit(args[1])
    /\ FGt(args[1], P.T3)
    /\ FLt(args[1], P.T2)
    /\ ret = 3

\* C6: with valid thresholds, FromScore of a score equal to Tk is Level k,
\* for k = 1..4.
FromScoreAtThreshold ==
    (op = "FromScore" /\ ThresholdsValid(P)) =>
        /\ args[1] = P.T1 => ret = 1
        /\ args[1] = P.T2 => ret = 2
        /\ args[1] = P.T3 => ret = 3
        /\ args[1] = P.T4 => ret = 4

\* FromScore returned Level 2 for a score equal to T2, with valid thresholds.
FromScoreAtThresholdWitness ==
    /\ op = "FromScore"
    /\ ThresholdsValid(P)
    /\ args[1] = P.T2
    /\ ret = 2

BatchOps ==
    {"Engine.BatchScoreAndLevel", "Engine.BatchAcuity", "Engine.BatchLevel",
     "Engine.BatchEvaluate"}

\* The slice r has n elements, and its i-th element is single[i].
SliceIs(r, n, single) ==
    /\ ~r.nil
    /\ Len(r.elems) = n
    /\ \A i \in 1..n : r.elems[i] = single[i]

\* C7: on inputs of equal length N each batch method returns N results, the
\* i-th being the result of the single-item method for (vitals[i],
\* resourceCounts[i]).
BatchMatchesSingle ==
    (op \in BatchOps /\ Len(args.vitals) = Len(args.resourceCounts)) =>
        LET n  == Len(args.vitals)
            v  == args.vitals
            rc == args.resourceCounts
        IN  /\ op = "Engine.BatchScoreAndLevel" =>
                  /\ SliceIs(ret[1], n, [i \in 1..n |-> ScoreAndLevel(P, v[i], rc[i])[1]])
                  /\ SliceIs(ret[2], n, [i \in 1..n |-> ScoreAndLevel(P, v[i], rc[i])[2]])
            /\ op = "Engine.BatchAcuity" =>
                  SliceIs(ret, n, [i \in 1..n |-> EngineAcuity(P, v[i], rc[i])])
            /\ op = "Engine.BatchLevel" =>
                  SliceIs(ret, n, [i \in 1..n |-> EngineLevel(P, v[i], rc[i])])
            /\ op = "Engine.BatchEvaluate" =>
                  SliceIs(ret, n, [i \in 1..n |-> Evaluate(P, v[i], rc[i])])

\* BatchLevel returned two different levels for a batch of two items.
BatchMatchesSingleWitness ==
    /\ op = "Engine.BatchLevel"
    /\ Len(args.vitals) = 2
    /\ Len(args.resourceCounts) = 2
    /\ ~ret.nil
    /\ Len(ret.elems) = 2
    /\ ret.elems[1] # ret.elems[2]

\* C8: on inputs of different lengths each batch method returns nil.
BatchMismatchIsNil ==
    (op \in BatchOps /\ Len(args.vitals) # Len(args.resourceCounts)) =>
        IF op = "Engine.BatchScoreAndLevel"
        THEN ret = <<NilSlice, NilSlice>>
        ELSE ret = NilSlice

\* BatchAcuity returned nil for two vitals and one resource count.
BatchMismatchIsNilWitness ==
    /\ op = "Engine.BatchAcuity"
    /\ Len(args.vitals) = 2
    /\ Len(args.resourceCounts) = 1
    /\ ret.nil

\* Every weight in [0, 1], MaxResources >= 0, ResourceWeight >= 0 and
\* 1 >= T1 > T2 > T3 > T4 > 0.
InAdmissibleRanges(p) ==
    /\ \A i \in 1..7 : InUnit(p.VitalWeights[i])
    /\ p.MaxResources >= 0
    /\ FGe(p.ResourceWeight, F(0))
    /\ ThresholdsValid(p)

\* C9: Validate returns true exactly when every weight is in [0, 1],
\* MaxResources >= 0, ResourceWeight >= 0 and 1 >= T1 > T2 > T3 > T4 > 0.
ValidateIsAdmissibleRanges ==
    op = "Params.Validate" => (ret <=> InAdmissibleRanges(P))

\* C10: ValidateParamsExternal(p) returns what p.Validate() returns.
ExternalValidatorAgrees ==
    op = "ValidateParamsExternal" => (ret <=> Validate(P))

\* C11: DefaultParams(), PresetStrict(), PresetLenient() and PresetResearch()
\* each return a Params that passes Validate, with weights in [0, 1],
\* non-negative resource parameters and 1 >= T1 > T2 > T3 > T4 > 0.
PresetsAreValid ==
    /\ op \in PresetNames => Validate(ret) /\ InAdmissibleRanges(ret)
    /\ (op = "Params.Validate" /\ P \in {pr[2] : pr \in Presets}) => ret = TRUE

\* Validate returned true on the Params that PresetResearch() returned.
PresetsAreValidWitness ==
    /\ op = "Params.Validate"
    /\ P = PresetResearch
    /\ P # DefaultParams
    /\ ret = TRUE

\* C12: each threshold of PresetStrict() is below, and each threshold of
\* PresetLenient() above, the one of DefaultParams(); for every score the
\* level number under the strict preset is at most the one under the default,
\* which is at most the one under the lenient preset.
PresetsOrdered ==
    op = "FromScore" =>
        /\ P = PresetStrict =>
              /\ IsStricterThan(P, DefaultParams)
              /\ ret <= FromScore(args[1], DefaultParams)
        /\ P = PresetLenient =>
              /\ IsStricterThan(DefaultParams, P)
              /\ ret >= FromScore(args[1], DefaultParams)
        /\ P = DefaultParams =>
              /\ FromScore(args[1], PresetStrict) <= ret
              /\ ret <= FromScore(args[1], PresetLenient)

\* FromScore on PresetStrict() returned Level 1 for a score that is Level 2
\* under DefaultParams().
PresetsOrderedWitness ==
    /\ op = "FromScore"
    /\ P = PresetStrict
    /\ ret = 1
    /\ FromScore(args[1], DefaultParams) = 2

\* C13: with DefaultParams(), ScoreAndLevel(Vitals{HR: 120, RR: 24, SBP: 90,
\* SpO2: 92}, 3) returns a score strictly between 0.60 and 0.85 and Level 2.
ExampleIsLevel2 ==
    (op = "Engine.ScoreAndLevel" /\ P = DefaultParams
        /\ args.v = ExampleVitals /\ args.rc = 3) =>
        /\ FGt(ret[1], Rat(60, 100))
        /\ FLt(ret[1], Rat(85, 100))
        /\ ret[2] = 2

\* ScoreAndLevel of the example returned 0.7622222222222221, the float64 next
\* below the one nearest to 343/450, and Level 2.
ExampleIsLevel2Witness ==
    /\ op = "Engine.ScoreAndLevel"
    /\ P = DefaultParams
    /\ args.v = ExampleVitals
    /\ args.rc = 3
    /\ ret[1] = [Rat(343, 450) EXCEPT !.lo = @ - 1]
    /\ ret[2] = 2

\* C14: for every Params that passes Validate, all-zero Vitals with
\* resourceCount = 0 give V = 0, R = 0, the score 0 and Level 5.
ZeroVitalsScoreZero ==
    (op = "Engine.ScoreAndLevel" /\ Validate(P) /\ args.v = ZeroVitals /\ args.rc = 0) =>
        /\ VitalComponent(args.v, P.VitalWeights) = F(0)
        /\ ResourceComponent(args.rc, P.MaxResources, P.ResourceWeight) = F(0)
        /\ ret = <<F(0), 5>>

\* C15 as stated: with DefaultParams(), exactly one present vital and
\* resourceCount = 0, the score is below T2 and the level is neither 1 nor 2.
SingleVitalBelowT2 ==
    (op = "Engine.ScoreAndLevel" /\ P = DefaultParams
        /\ PresentCount(args.v) = 1 /\ args.rc = 0) =>
        /\ FLt(ret[1], P.T2)
        /\ ret[2] \notin {1, 2}

\* C15: with DefaultParams(), exactly one present vital and resourceCount = 0,
\* the score is at most 0.8, below T1, and the level is never 1.
SingleVitalBelowT1 ==
    (op = "Engine.ScoreAndLevel" /\ P = DefaultParams
        /\ PresentCount(args.v) = 1 /\ args.rc = 0) =>
        /\ FLe(ret[1], Rat(4, 5))
        /\ FLt(ret[1], P.T1)
        /\ ret[2] >= 2

\* ScoreAndLevel on DefaultParams() returned 0.8 and Level 2 for a heart rate
\* of 160 alone.
SingleVitalBelowT1Witness ==
    /\ op = "Engine.ScoreAndLevel"
    /\ P = DefaultParams
    /\ args.v = [ZeroVitals EXCEPT !.HR = 160]
    /\ args.rc = 0
    /\ ret = <<Rat(4, 5), 2>>

(***************************************************************************)
(* SpecRepeat: a caller that keeps the result of a ScoreAndLevel call and  *)
(* calls again, with other operations before and between the two calls.    *)
(* The reference ranges that VitalComponent reads are exported variables   *)
(* of package score, which the program that imports the package may        *)
(* assign: here it assigns HRNorm.                                         *)
(***************************************************************************)
RepeatParams == {DefaultParams, PresetStrict, WithWeights(Zero7)}

\* The values assigned to score.HRNorm: its initial value and the heart rate
\* range of norm.PediatricRanges.
RepeatHRNorms == {<<F(80), F(40)>>, <<F(100), F(50)>>}

InitRepeat ==
    /\ InitPkg
    /\ P \in RepeatParams
    /\ op = "idle"
    /\ args = <<>>
    /\ ret = <<>>
    /\ last = <<>>

\* The return of ScoreAndLevel to a caller that keeps the inputs and the result.
ReturnScoreAndLevel ==
    /\ op = "Engine.ScoreAndLevel"
    /\ last' = <<[P |-> P, v |-> args.v, rc |-> args.rc, ret |-> ret]>>
    /\ op' = "idle"
    /\ args' = <<>>
    /\ ret' = <<>>
    /\ UNCHANGED <<P, pkg>>

\* score.HRNorm = x, an assignment of the importing program between two
\* calls.
AssignHRNorm(x) ==
    /\ op = "idle"
    /\ HRNorm' = x
    /\ UNCHANGED <<P, op, args, ret, last>>
    /\ UNCHANGED <<RRNorm, SBPNorm, DBPNorm, TempNorm, SpO2Norm, GCSNorm>>

NextRepeat ==
    \/ \E p \in RepeatParams : NewEngine(p)
    \/ \E x \in RepeatHRNorms : AssignHRNorm(x)
    \/ /\ op = "idle"
       /\ \E v \in BatchVitals, rc \in BatchRCs :
             \/ CallScoreAndLevel(v, rc)
             \/ CallLevel(v, rc)
    \/ /\ op = "idle"
       /\ \E vs \in SeqsUpTo(BatchVitals, 1), rcs \in SeqsUpTo(BatchRCs, 1) :
             CallBatchEvaluate(vs, rcs)
    \/ ReturnScoreAndLevel
    \/ /\ op # "Engine.ScoreAndLevel"
       /\ Return

SpecRepeat == InitRepeat /\ [][NextRepeat]_vars

\* C16: a ScoreAndLevel call with the Vitals, the resource count and the
\* Params of an earlier ScoreAndLevel call returns the same (score, level),
\* whatever was done before or between them: the result depends on those
\* three inputs only.
ScoreAndLevelRepeats ==
    (op = "Engine.ScoreAndLevel" /\ Len(last) = 1 /\ last[1].P = P
        /\ last[1].v = args.v /\ last[1].rc = args.rc) =>
        ret = last[1].ret

(***************************************************************************)
(* SpecConc: one ScoreAndLevel call on an engine whose exported field P    *)
(* other goroutines change through the pointer-receiver setters, without   *)
(* any lock.  The call reads e.P for Acuity and then copies e.P, one field *)
(* after the other, into the argument of FromScore.  SetThresholds stores  *)
(* T1, T2, T3 and T4 one after the other, in the order of its assignment   *)
(* statement, and SetVitalWeight makes one store; every store may fall     *)
(* before, between and after the reads of the call, so that the copy may   *)
(* hold any mix of old and new thresholds.  args.held is the set of the    *)
(* values e.P had while the call was running, the values between two       *)
(* stores included; args.copy is the copy of the thresholds made so far.   *)
(* The                                                                     *)
(* goroutines of Setters call SetThresholds, each one call after the       *)
(* other, and nothing orders the stores of one with those of the other:    *)
(* last.call[g] holds the call of g in progress, its arguments t and the   *)
(* index next of its next store.  last.sets counts the setter calls made,  *)
(* at most MaxSetters.                                                     *)
(***************************************************************************)
MaxSetters == 3

\* The goroutines that call e.P.SetThresholds.
Setters == {"A", "B"}

ConcVitals == {ExampleVitals, [ZeroVitals EXCEPT !.HR = 160]}

ConcRCs == {0, 6}

ConcThresholds ==
    {<<DefaultParams.T1, DefaultParams.T2, DefaultParams.T3, DefaultParams.T4>>,
     <<PresetStrict.T1, PresetStrict.T2, PresetStrict.T3, PresetStrict.T4>>}

ConcWeights == {F(0), DefaultParams.VitalWeights[1]}

\* The k-th threshold of p, and p after a store to it.
Threshold(p, k) ==
    CASE k = 1 -> p.T1 [] k = 2 -> p.T2 [] k = 3 -> p.T3 [] k = 4 -> p.T4

StoreThreshold(p, k, x) ==
    CASE k = 1 -> [p EXCEPT !.T1 = x] [] k = 2 -> [p EXCEPT !.T2 = x]
      [] k = 3 -> [p EXCEPT !.T3 = x] [] k = 4 -> [p EXCEPT !.T4 = x]

InitConc ==
    /\ InitPkg
    /\ P = DefaultParams
    /\ op = "idle"
    /\ args = <<>>
    /\ ret = <<>>
    /\ last = [sets |-> 0, call |-> [g \in Setters |-> <<>>]]

\* First statement of Engine.ScoreAndLevel: acuity = e.Acuity(v, resourceCount).
\* Of the fields Acuity reads, the setters of this specification change
\* VitalWeights[0] only, in one store.
ScoreAndLevelAcuity(v, rc) ==
    /\ op = "idle"
    /\ op' = "Engine.ScoreAndLevel.acuity"
    /\ args' = [v |-> v, rc |-> rc, held |-> {P}, copy |-> <<>>]
    /\ ret' = <<EngineAcuity(P, v, rc)>>
    /\ UNCHANGED <<P, last, pkg>>

\* Second statement, the argument e.P of FromScore: the next threshold is
\* copied.
ScoreAndLevelCopy ==
    /\ op = "Engine.ScoreAndLevel.acuity"
    /\ Len(args.copy) < 4
    /\ args' = [args EXCEPT !.copy = Append(@, Threshold(P, Len(@) + 1))]
    /\ UNCHANGED <<P, op, ret, last, pkg>>

\* Second statement: level = FromScore(acuity, the copy of e.P), and the
\* return.
ScoreAndLevelFromScore ==
    /\ op = "Engine.ScoreAndLevel.acuity"
    /\ Len(args.copy) = 4
    /\ op' = "Engine.ScoreAndLevel"
    /\ ret' = <<ret[1],
                FromScore(ret[1], SetAllThresholds(P, args.copy))>>
    /\ UNCHANGED <<P, args, last, pkg>>

\* One store of a setter, the first of its call or a later one: the engine's
\* parameters become q while a call may be running.
Holds(q, first) ==
    /\ op \in {"idle", "Engine.ScoreAndLevel.acuity"}
    /\ first => last.sets < MaxSetters
    /\ P' = q
    /\ args' = IF op = "idle" THEN args
               ELSE [args EXCEPT !.held = @ \cup {q}]
    /\ UNCHANGED <<op, ret, pkg>>

\* e.P.SetThresholds(t1, t2, t3, t4) on goroutine g: the call and its first
\* store, p.T1 = t1.
ConcurrentSetThresholds(g, t) ==
    /\ last.call[g] = <<>>
    /\ Holds(StoreThreshold(P, 1, t[1]), TRUE)
    /\ last' = [last EXCEPT !.sets = @ + 1, !.call[g] = <<[t |-> t, next |-> 2]>>]

\* The store that the SetThresholds call c makes next.
NextStore(p, c) == StoreThreshold(p, c.next, c.t[c.next])

\* The next store of the SetThresholds call that g has in progress.
ConcurrentStore(g) ==
    /\ last.call[g] # <<>>
    /\ Holds(NextStore(P, last.call[g][1]), FALSE)
    /\ last' = [last EXCEPT !.call[g] = IF @[1].next = 4 THEN <<>>
                                        ELSE <<[@[1] EXCEPT !.next = @ + 1]>>]

\* e.P.SetVitalWeight(i, w) on another goroutine.
ConcurrentSetVitalWeight(i, w) ==
    /\ Holds(SetVitalWeight(P, i, w), TRUE)
    /\ last' = [last EXCEPT !.sets = @ + 1]

NextConc ==
    \/ /\ op = "idle"
       /\ \E v \in ConcVitals, rc \in ConcRCs : ScoreAndLevelAcuity(v, rc)
    \/ ScoreAndLevelCopy
    \/ ScoreAndLevelFromScore
    \/ \E g \in Setters, t \in ConcThresholds : ConcurrentSetThresholds(g, t)
    \/ \E g \in Setters : ConcurrentStore(g)
    \/ \E w \in ConcWeights : ConcurrentSetVitalWeight(0, w)
    \/ /\ op = "Engine.ScoreAndLevel"
       /\ Return

SpecConc == InitConc /\ [][NextConc]_vars

\* C17: AcuityWithNorms with DefaultNorms() returns what Acuity returns, and
\* VitalComponentWithNorms with DefaultNorms() what VitalComponent returns.
WithDefaultNormsAgrees ==
    (op = "score.AcuityWithNorms" /\ args.norms = DefaultNorms) =>
        /\ ret = Acuity(args.v, args.rc, P.MaxResources, P.VitalWeights, P.ResourceWeight)
        /\ VitalComponentWithNorms(args.v, P.VitalWeights, DefaultNorms)
              = VitalComponent(args.v, P.VitalWeights)

\* min(1, |v - mid| / hw), and 0 when hw <= 0.
CappedRatio(v, mid, hw) ==
    IF FLe(hw, F(0)) THEN F(0)
    ELSE LET d == FDiv(FAbs(FSub(v, mid)), hw)
         IN  IF FLt(d, F(1)) THEN d ELSE F(1)

\* C18: score.deviation and norm.Deviation return min(1, |value - mid| / hw)
\* when hw > 0 and 0 when hw <= 0, and the same for the value mirrored at mid.
DeviationIsCappedRatio ==
    op \in {"score.deviation", "norm.Deviation"} =>
        /\ ret = CappedRatio(args.v, args.mid, args.hw)
        /\ op = "score.deviation" =>
              ret = deviation(FSub(FAdd(args.mid, args.mid), args.v), args.mid, args.hw)
        /\ op = "norm.Deviation" =>
              ret = Deviation(FSub(FAdd(args.mid, args.mid), args.v), args.mid, args.hw)

\* C19: under every interleaving with the setters, a ScoreAndLevel call
\* returns the (score, level) of one single parameter set the engine held
\* during the call.
ScoreAndLevelFromOneParams ==
    op = "Engine.ScoreAndLevel" =>
        \E q \in args.held : ret = ScoreAndLevel(q, args.v, args.rc)

\* v with its i-th vital replaced by x (a float64 for Temp, an int otherwise).
WithVital(v, i, x) ==
    CASE i = 1 -> [v EXCEPT !.HR = x]   [] i = 2 -> [v EXCEPT !.RR = x]
      [] i = 3 -> [v EXCEPT !.SBP = x]  [] i = 4 -> [v EXCEPT !.DBP = x]
      [] i = 5 -> [v EXCEPT !.Temp = x] [] i = 6 -> [v EXCEPT !.SpO2 = x]
      [] i = 7 -> [v EXCEPT !.GCS = x]

\* The value of a missing i-th vital.
Missing(i) == IF i = 5 THEN F(0) ELSE 0

\* Other values of the i-th vital: missing, inside and outside the range.
OtherValues(i) ==
    IF i = 5 THEN {F(0), F(-1), F(35), F(37), F(45), PosInf, NaN}
    ELSE {0, -4, 1, 14, 70, 250}

\* C20: on an engine whose VitalWeights[i] is 0, ScoreAndLevel returns the same
\* (score, level) for the Vitals with any other value of vital i.
WeightZeroDisables ==
    op = "Engine.ScoreAndLevel" =>
        \A i \in 1..7 :
            P.VitalWeights[i] = F(0) =>
                \A x \in OtherValues(i) :
                    ScoreAndLevel(P, WithVital(args.v, i, x), args.rc) = ret

\* ScoreAndLevel returned a positive score for a present temperature and a
\* present heart rate on an engine whose temperature weight alone is 0.
WeightZeroDisablesWitness ==
    /\ op = "Engine.ScoreAndLevel"
    /\ P.VitalWeights[5] = F(0)
    /\ P.VitalWeights[1] # F(0)
    /\ args.v.Temp = F(38)
    /\ args.v.HR > 0
    /\ FGt(ret[1], F(0))
    /\ ScoreAndLevel(P, [args.v EXCEPT !.Temp = F(0)], args.rc) = ret

\* C21: AcuityWithNorms with a half-width <= 0 for vital i returns the score
\* of the same Vitals with vital i missing.
ZeroHalfWidthDisables ==
    op = "score.AcuityWithNorms" =>
        \A i \in 1..7 :
            FLe(args.norms[i][2], F(0)) =>
                ret = AcuityWithNorms(WithVital(args.v, i, Missing(i)), args.rc,
                                      P.MaxResources, P.VitalWeights,
                                      P.ResourceWeight, args.norms)

\* AcuityWithNorms returned a positive score for Vitals with a present heart
\* rate whose half-width is 0, other than the score under the default ranges.
ZeroHalfWidthDisablesWitness ==
    /\ op = "score.AcuityWithNorms"
    /\ P = DefaultParams
    /\ args.norms = DisabledNorms
    /\ args.v.HR = 120
    /\ args.v.SpO2 = 92
    /\ FGt(ret, F(0))
    /\ ret # AcuityWithNorms(args.v, args.rc, P.MaxResources, P.VitalWeights,
                             P.ResourceWeight, DefaultNorms)

\* raw = V + R of the Engine.Acuity call in progress.
RawOfCall ==
    AcuityRaw(VitalComponent(args.v, P.VitalWeights),
              ResourceComponent(args.rc, P.MaxResources, P.ResourceWeight))

\* Every vital of the call is maximally deviant and its resource count is at
\* or above a positive cap.
AllDeviantAtCap ==
    /\ args.v = AllDeviant
    /\ P.MaxResources > 0
    /\ args.rc >= P.MaxResources

\* C22 as stated: on an engine whose Params pass Validate, raw never exceeds
\* the divisor sum(w_i) + ResourceWeight, and a patient with all seven vitals
\* maximally deviant and resources at the cap has raw = divisor and scores 1.
DivisorIsMaxRaw ==
    (op = "Engine.Acuity" /\ Validate(P)) =>
        /\ FLe(RawOfCall, Divisor(P))
        /\ AllDeviantAtCap => (RawOfCall = Divisor(P) /\ ret = F(1))

\* A weight or the resource weight of p is NaN or infinite.
NotFinite(p) ==
    \/ \E i \in 1..7 : ~finite(p.VitalWeights[i])
    \/ ~finite(p.ResourceWeight)

\* C22, amended: on an engine whose Params pass Validate, raw is never
\* above 1 + ResourceWeight.  For all seven vitals maximally deviant and
\* resources at the cap the score is NaN when a weight or the resource
\* weight is NaN or infinite; otherwise raw is 1 + ResourceWeight
\* (ResourceWeight alone when every weight is 0) and the score is the
\* float64 quotient raw / divisor clamped to 1: 0 when the divisor is 0,
\* exactly 1 when sum(w_i) <= 1 and the divisor is positive, and at most 1
\* when sum(w_i) > 1.
MaxRawIsOnePlusResourceWeight ==
    (op = "Engine.Acuity" /\ Validate(P)) =>
        LET S   == WeightSum(P.VitalWeights)
            top == FAdd(IF FGt(S, F(0)) THEN F(1) ELSE F(0), P.ResourceWeight)
        IN  /\ ~FGt(RawOfCall, FAdd(F(1), P.ResourceWeight))
            /\ (AllDeviantAtCap /\ NotFinite(P)) => IsNaN(ret)
            /\ (AllDeviantAtCap /\ ~NotFinite(P)) =>
                  /\ RawOfCall = top
                  /\ ret = IF FLe(Divisor(P), F(0)) THEN F(0)
                           ELSE Clamp01(FDiv(top, Divisor(P)))
                  /\ (FLe(S, F(1)) /\ FGt(Divisor(P), F(0))) => ret = F(1)
                  /\ FGt(S, F(1)) => (FGt(ret, F(0)) /\ FLe(ret, F(1)))

\* Engine.Acuity returned a score below 1 for all seven vitals maximally
\* deviant and resources at the cap, on a valid engine whose weights sum to
\* more than 1.
MaxRawIsOnePlusResourceWeightWitness ==
    /\ op = "Engine.Acuity"
    /\ Validate(P)
    /\ AllDeviantAtCap
    /\ FGt(WeightSum(P.VitalWeights), F(1))
    /\ FLt(RawOfCall, Divisor(P))
    /\ FLt(ret, F(1))

\* C23 as stated: ResourceComponent returns a value in [0, 1] for every
\* resourceCount, every maxResources and every weight >= 0.
ResourceComponentInUnit ==
    (op = "ResourceComponent" /\ FGe(args.weight, F(0))) => InUnit(ret)

(***************************************************************************)
(* SpecValidate: calls of validate.ResourceCount, validate.ClampVitals and *)
(* validate.Vitals.                                                        *)
(***************************************************************************)
\* Resource counts below 0, in range and above every cap.
ValidateCounts == -2..MaxRC

ValidateMaxResources == {-1, 0, 1, 3, 6}

\* Vitals given to ClampVitals and Vitals: each field missing, negative,
\* below, at, inside and above its bounds; a NaN and an infinite temperature.
ValidateInputs ==
    [HR : {0, -5, 10, 80, 500}, RR : {0, -5, 16, 61}, SBP : {0}, DBP : {0},
     Temp : {F(0), F(-1), F(29), F(37), F(46), NaN, PosInf},
     SpO2 : {0, -3, 98, 101}, GCS : {0, 2, 9, 16}]
    \cup {[ZeroVitals EXCEPT !.HR = x] : x \in {20, 300}}
    \cup {[ZeroVitals EXCEPT !.RR = x] : x \in {1, 60}}
    \cup {[ZeroVitals EXCEPT !.SBP = x] : x \in {-1, 39, 40, 120, 300, 301}}
    \cup {[ZeroVitals EXCEPT !.DBP = x] : x \in {-1, 19, 20, 80, 200, 201}}
    \cup {[ZeroVitals EXCEPT !.Temp = x] : x \in {F(30), F(45), NegInf}}
    \cup {[ZeroVitals EXCEPT !.SpO2 = x] : x \in {1, 100}}
    \cup {[ZeroVitals EXCEPT !.GCS = x] : x \in {-1, 3, 15}}

InitValidate ==
    /\ InitPkg
    /\ P = DefaultParams
    /\ op = "idle"
    /\ args = <<>>
    /\ ret = <<>>
    /\ last = <<>>

CallResourceCount(count, maxResources) ==
    /\ op = "idle"
    /\ op' = "validate.ResourceCount"
    /\ args' = [count |-> count, maxResources |-> maxResources]
    /\ ret' = ResourceCount(count, maxResources)
    /\ UNCHANGED <<P, last, pkg>>

CallClampVitals(v) ==
    /\ op = "idle"
    /\ op' = "validate.ClampVitals"
    /\ args' = [v |-> v]
    /\ ret' = ClampVitals(v)
    /\ UNCHANGED <<P, last, pkg>>

CallValidateVitals(v) ==
    /\ op = "idle"
    /\ op' = "validate.Vitals"
    /\ args' = [v |-> v]
    /\ ret' = ValidateVitals(v)
    /\ UNCHANGED <<P, last, pkg>>

NextValidate ==
    \/ /\ op = "idle"
       /\ \E count \in ValidateCounts, m \in ValidateMaxResources :
                CallResourceCount(count, m)
    \/ /\ op = "idle"
       /\ \E v \in ValidateInputs : CallClampVitals(v)
    \/ /\ op = "idle"
       /\ \E v \in ValidateInputs : CallValidateVitals(v)
    \/ Return

SpecValidate == InitValidate /\ [][NextValidate]_vars

\* C24: validate.ResourceCount returns count clamped to [0, maxResources]
\* (count when 0 <= count <= max, 0 when count < 0, max when count > max),
\* returns 0 whenever maxResources <= 0, and applying it again to its result
\* changes nothing.
ResourceCountClamps ==
    op = "validate.ResourceCount" =>
        LET count == args.count
            m     == args.maxResources
        IN  /\ m <= 0 => ret = 0
            /\ (m > 0 /\ 0 <= count /\ count <= m) => ret = count
            /\ (m > 0 /\ count < 0) => ret = 0
            /\ (m > 0 /\ count > m) => ret = m
            /\ ResourceCount(ret, m) = ret

\* ResourceCount returned 0 for a negative count with a positive cap.
ResourceCountClampsWitness ==
    /\ op = "validate.ResourceCount"
    /\ args.maxResources = 3
    /\ args.count = -2
    /\ ret = 0

\* x is within the bounds b of an integer vital.
IntInBounds(x, b) == b[1] <= x /\ x <= b[2]

\* x is within TempBounds.
TempInBounds(x) == FLe(TempBounds[1], x) /\ FLe(x, TempBounds[2])

\* What the clamp of a present integer vital x is to be: x when in bounds,
\* else the nearest bound.
NearestInt(x, b) == IF x < b[1] THEN b[1] ELSE IF x > b[2] THEN b[2] ELSE x

\* C25: ClampVitals(v) leaves every missing (0) field at 0, leaves every
\* present in-bounds field unchanged and forces every present out-of-bounds
\* field to the nearest bound of that vital, so that every present field of
\* the result is within its bounds; validate.Vitals of the result is Valid
\* and clamping the result again changes nothing.
ClampVitalsClamps ==
    op = "validate.ClampVitals" =>
        LET v == args.v
        IN  /\ ret.HR   = IF v.HR = 0 THEN 0 ELSE NearestInt(v.HR, HRBounds)
            /\ ret.RR   = IF v.RR = 0 THEN 0 ELSE NearestInt(v.RR, RRBounds)
            /\ ret.SBP  = IF v.SBP = 0 THEN 0 ELSE NearestInt(v.SBP, SBPBounds)
            /\ ret.DBP  = IF v.DBP = 0 THEN 0 ELSE NearestInt(v.DBP, DBPBounds)
            /\ ret.SpO2 = IF v.SpO2 = 0 THEN 0 ELSE NearestInt(v.SpO2, SpO2Bounds)
            /\ ret.GCS  = IF v.GCS = 0 THEN 0 ELSE NearestInt(v.GCS, GCSBounds)
            /\ v.Temp = F(0) => ret.Temp = F(0)
            /\ TempInBounds(v.Temp) => ret.Temp = v.Temp
            /\ (v.Temp # F(0) /\ ~TempInBounds(v.Temp)) =>
                    (ret.Temp \in {TempBounds[1], TempBounds[2]} /\ TempInBounds(ret.Temp))
            /\ ValidateVitals(ret).Valid
            /\ ClampVitals(ret) = ret

\* C30: a field is non-zero in ClampVitals(v) if and only if it is non-zero
\* in v.
ClampVitalsKeepsPresence ==
    op = "validate.ClampVitals" =>
        /\ (ret.HR # 0) <=> (args.v.HR # 0)
        /\ (ret.RR # 0) <=> (args.v.RR # 0)
        /\ (ret.SBP # 0) <=> (args.v.SBP # 0)
        /\ (ret.DBP # 0) <=> (args.v.DBP # 0)
        /\ FNe(ret.Temp, F(0)) <=> FNe(args.v.Temp, F(0))
        /\ (ret.SpO2 # 0) <=> (args.v.SpO2 # 0)
        /\ (ret.GCS # 0) <=> (args.v.GCS # 0)

(***************************************************************************)
(* SpecMetrics: a confusion matrix built from predicted and reference      *)
(* levels, and its accuracy and kappa.                                     *)
(***************************************************************************)
\* Levels of the lowest, a middle and the highest class, and a level out of
\* range.
MetricLevels == {0, 1, 2, 5}

\* The longest sequences of levels.
MaxPairs == 3

InitMetrics ==
    /\ InitPkg
    /\ P = DefaultParams
    /\ op = "idle"
    /\ args = <<>>
    /\ ret = <<>>
    /\ last = <<>>

\* A call of name on NewConfusionMatrix(predicted, reference), with result r.
Metric(name, predicted, reference, r) ==
    /\ op = "idle"
    /\ op' = name
    /\ args' = [predicted |-> predicted, reference |-> reference]
    /\ ret' = r
    /\ UNCHANGED <<P, last, pkg>>

CallNewConfusionMatrix(predicted, reference) ==
    Metric("NewConfusionMatrix", predicted, reference,
           NewConfusionMatrix(predicted, reference))

CallOverallAccuracy(predicted, reference) ==
    Metric("ConfusionMatrix.OverallAccuracy", predicted, reference,
           OverallAccuracy(NewConfusionMatrix(predicted, reference)))

CallCohenKappa(predicted, reference) ==
    Metric("ConfusionMatrix.CohenKappa", predicted, reference,
           CohenKappa(NewConfusionMatrix(predicted, reference)))

NextMetrics ==
    \/ /\ op = "idle"
       /\ \E predicted \in SeqsUpTo(MetricLevels, MaxPairs),
             reference \in SeqsUpTo(MetricLevels, MaxPairs) :
                \/ CallNewConfusionMatrix(predicted, reference)
                \/ CallOverallAccuracy(predicted, reference)
                \/ CallCohenKappa(predicted, reference)
    \/ Return

SpecMetrics == InitMetrics /\ [][NextMetrics]_vars

\* The call in progress is on NewConfusionMatrix(x, x) for a non-empty
\* sequence x of levels in 1..5.
PerfectPair ==
    /\ args.predicted = args.reference
    /\ Len(args.reference) >= 1
    /\ \A k \in 1..Len(args.reference) : args.reference[k] \in 1..5

\* C26 as stated: for every non-empty sequence x of levels in 1..5, the
\* matrix NewConfusionMatrix(x, x) has OverallAccuracy() = 1 and
\* CohenKappa() = 1.
PerfectAgreementAlways ==
    /\ (op = "ConfusionMatrix.OverallAccuracy" /\ PerfectPair) => ret = F(1)
    /\ (op = "ConfusionMatrix.CohenKappa" /\ PerfectPair) => ret = F(1)

\* C26, amended: for every non-empty sequence x of levels in 1..5, the
\* matrix NewConfusionMatrix(x, x) has OverallAccuracy() = 1; CohenKappa() is
\* 1 when x holds at least two different levels and 0 when all its levels
\* are the same.
PerfectAgreement ==
    /\ (op = "ConfusionMatrix.OverallAccuracy" /\ PerfectPair) => ret = F(1)
    /\ (op = "ConfusionMatrix.CohenKappa" /\ PerfectPair) =>
          ret = IF \E k \in 1..Len(args.reference) : args.reference[k] # args.reference[1]
                THEN F(1) ELSE F(0)

\* CohenKappa returned 0 for a sequence of two equal levels compared with
\* itself.
PerfectAgreementWitness ==
    /\ op = "ConfusionMatrix.CohenKappa"
    /\ PerfectPair
    /\ Len(args.reference) >= 2
    /\ \A k \in 1..Len(args.reference) : args.reference[k] = 5
    /\ ret = F(0)

\* C27: ScoreAndLevel(v, rc) returns (Acuity(v, rc), Level(v, rc)), Evaluate
\* holds the same pair, and the level is FromScore(acuity, P) and lies in
\* 1..5.
EntryPointsAgree ==
    /\ op = "Engine.ScoreAndLevel" =>
          /\ ret = <<EngineAcuity(P, args.v, args.rc), EngineLevel(P, args.v, args.rc)>>
          /\ ret[2] = FromScore(ret[1], P)
          /\ ret[2] \in 1..5
    /\ op = "Engine.Evaluate" =>
          /\ ret.Acuity = EngineAcuity(P, args.v, args.rc)
          /\ ret.Level = EngineLevel(P, args.v, args.rc)
          /\ <<ret.Acuity, ret.Level>> = ScoreAndLevel(P, args.v, args.rc)
          /\ ret.Level = FromScore(ret.Acuity, P)
          /\ ret.Level \in 1..5
    /\ op = "Engine.Level" =>
          /\ ret = FromScore(EngineAcuity(P, args.v, args.rc), P)
          /\ ret \in 1..5

\* Evaluate returned a score strictly between 0 and 1 and a level below 5 on
\* an engine whose weights are not the default ones and matter for the level.
EntryPointsAgreeWitness ==
    /\ op = "Engine.Evaluate"
    /\ P.VitalWeights # VitalWeights
    /\ FGt(ret.Acuity, F(0))
    /\ FLt(ret.Acuity, F(1))
    /\ ret.Level < 5
    /\ ret.Level # EngineLevelDefaultWeights(P, args.v, args.rc)

\* C29: ScoreAndLevelWithResourceClamp(v, rc) returns what ScoreAndLevel(v, rc)
\* returns and what ScoreAndLevel(v, validate.ResourceCount(rc, MaxResources))
\* returns, on every engine.
ResourceClampChangesNothing ==
    op = "Engine.ScoreAndLevelWithResourceClamp" =>
        /\ ret = ScoreAndLevel(P, args.v, args.rc)
        /\ ret = ScoreAndLevel(P, args.v, ResourceCount(args.rc, P.MaxResources))

\* ScoreAndLevelWithResourceClamp returned, for a count above a positive cap,
\* a pair other than the one for count 0.
ResourceClampChangesNothingWitness ==
    /\ op = "Engine.ScoreAndLevelWithResourceClamp"
    /\ P.MaxResources > 0
    /\ args.rc > P.MaxResources
    /\ finite(ret[1])
    /\ ret # ScoreAndLevel(P, args.v, 0)

(***************************************************************************)
(* SpecOwn: a caller with a Params variable p, an engine e built by        *)
(* NewEngine(p) and a copy q taken by e.Params() or p.Clone().  The caller *)
(* then changes p and q through the pointer-receiver mutators, builds      *)
(* engines with e.WithParams(p) and scores with e.  last[1] holds p, q,    *)
(* given, the value p had when NewEngine(p) built e, and calls, the number *)
(* of mutator calls made.                                                  *)
(***************************************************************************)
Caller == last[1]

\* What the caller's mutator calls turn a Params value p into; q is the
\* caller's other Params value, the argument of CopyWeightsFrom.
Mutations(p, q) ==
    { SetThresholds(p, PresetStrict.T1, PresetStrict.T2, PresetStrict.T3, PresetStrict.T4),
      SetAllThresholds(p, <<DefaultParams.T1, DefaultParams.T2, DefaultParams.T3,
                            DefaultParams.T4>>),
      SetAllThresholds(p, <<F(1)>>),
      SetVitalWeight(p, 0, F(0)),
      ScaleWeights(p, F(2)),
      ScaleWeights(p, F(0)),
      NormalizeWeights(p),
      EntropyWeights(p),
      GeometricThresholds(p, Rat(1, 10), Rat(9, 10)),
      GeometricThresholds(p, Rat(9, 10), Rat(1, 10)),
      GeometricThresholds(p, F(0), Rat(9, 10)),
      GeometricThresholds(p, Rat(1, 10), F(2)),
      CopyWeightsFrom(p, q) }

OwnVitals == {ExampleVitals, [ZeroVitals EXCEPT !.HR = 160]}

\* The caller makes at most MaxCalls mutator calls: ScaleWeights and
\* NormalizeWeights round, so that repeating them keeps giving new values.
MaxCalls == 2

InitOwn ==
    /\ InitPkg
    /\ P = DefaultParams
    /\ op = "idle"
    /\ args = <<>>
    /\ ret = <<>>
    /\ last = <<[p |-> DefaultParams, q |-> DefaultParams, given |-> DefaultParams,
                calls |-> 0]>>

\* e = NewEngine(p): the engine holds a copy of the argument.
OwnNewEngine ==
    /\ op = "idle"
    /\ P' = Caller.p
    /\ last' = <<[Caller EXCEPT !.given = Caller.p]>>
    /\ op' = "NewEngine"
    /\ args' = <<>>
    /\ ret' = <<>>
    /\ UNCHANGED pkg

\* A faulty mutator call on the caller's p, as if the engine shared p's
\* storage: OwnedByValue fails with it.
MutateCallerShared(new) ==
    /\ op = "idle"
    /\ Caller.calls < MaxCalls
    /\ new # Caller.p
    /\ last' = <<[Caller EXCEPT !.p = new, !.calls = @ + 1]>>
    /\ P' = new
    /\ op' = "p.mutator"
    /\ args' = [p |-> Caller.p, P |-> P]
    /\ ret' = <<>>
    /\ UNCHANGED pkg

\* A mutator call on the caller's p, after which p is new.
MutateCaller(new) ==
    /\ op = "idle"
    /\ Caller.calls < MaxCalls
    /\ new # Caller.p
    /\ last' = <<[Caller EXCEPT !.p = new, !.calls = @ + 1]>>
    /\ op' = "p.mutator"
    /\ args' = [p |-> Caller.p, P |-> P]
    /\ ret' = <<>>
    /\ UNCHANGED <<P, pkg>>

\* q := e.Params()
TakeParams ==
    /\ op = "idle"
    /\ last' = <<[Caller EXCEPT !.q = Clone(P)]>>
    /\ op' = "Engine.Params"
    /\ args' = <<>>
    /\ ret' = Clone(P)
    /\ UNCHANGED <<P, pkg>>

\* q := p.Clone()
TakeClone ==
    /\ op = "idle"
    /\ last' = <<[Caller EXCEPT !.q = Clone(Caller.p)]>>
    /\ op' = "Params.Clone"
    /\ args' = <<>>
    /\ ret' = Clone(Caller.p)
    /\ UNCHANGED <<P, pkg>>

\* A mutator call on the copy q, after which q is new.
MutateCopy(new) ==
    /\ op = "idle"
    /\ Caller.calls < MaxCalls
    /\ new # Caller.q
    /\ last' = <<[Caller EXCEPT !.q = new, !.calls = @ + 1]>>
    /\ op' = "q.mutator"
    /\ args' = [p |-> Caller.p, P |-> P]
    /\ ret' = <<>>
    /\ UNCHANGED <<P, pkg>>

\* e.WithParams(p): the result is the P of the new engine.
CallWithParams ==
    /\ op = "idle"
    /\ op' = "Engine.WithParams"
    /\ args' = [p |-> Caller.p, P |-> P]
    /\ ret' = Caller.p
    /\ UNCHANGED <<P, last, pkg>>

NextOwn ==
    \/ OwnNewEngine
    \/ /\ op = "idle" /\ Caller.calls < MaxCalls
       /\ \E new \in Mutations(Caller.p, Caller.q) : MutateCaller(new)
    \/ TakeParams
    \/ TakeClone
    \/ /\ op = "idle" /\ Caller.calls < MaxCalls
       /\ \E new \in Mutations(Caller.q, Caller.p) : MutateCopy(new)
    \/ CallWithParams
    \/ /\ op = "idle"
       /\ \E v \in OwnVitals : CallScoreAndLevel(v, 3)
    \/ /\ op = "idle"
       /\ \E v \in OwnVitals : CallBatchScoreAndLevel(<<v>>, <<3>>)
    \/ Return

SpecOwn == InitOwn /\ [][NextOwn]_vars

\* C28: the engine's Params are those NewEngine was given, whatever the
\* caller has since done to p and to the copies; a mutator call on p or on a
\* copy and WithParams leave e.P as it was, a mutator call on a copy leaves p
\* as it was; WithParams returns an engine holding p; every scoring call
\* returns the result under the Params given to NewEngine.
OwnedByValue ==
    /\ P = Caller.given
    /\ op \in {"p.mutator", "q.mutator", "Engine.WithParams"} => P = args.P
    /\ op \in {"q.mutator", "Engine.WithParams"} => Caller.p = args.p
    /\ op = "Engine.WithParams" => ret = Caller.p
    /\ op = "Engine.ScoreAndLevel" => ret = ScoreAndLevel(Caller.given, args.v, args.rc)
    /\ op = "Engine.BatchScoreAndLevel" =>
          ret = BatchScoreAndLevel(Caller.given, args.vitals, args.resourceCounts)

\* ScoreAndLevel returned the result under the Params given to NewEngine
\* after the caller changed p and a copy so that both would give another
\* result.
OwnedByValueWitness ==
    /\ op = "Engine.ScoreAndLevel"
    /\ Caller.p # Caller.given
    /\ Caller.q # Caller.given
    /\ ScoreAndLevel(Caller.p, args.v, args.rc) # ret
    /\ ScoreAndLevel(Caller.q, args.v, args.rc) # ret
    /\ ret = ScoreAndLevel(P, args.v, args.rc)

====
